---- MODULE Spec2Model ----
(***************************************************************************)
(* ObserverWard terminal UI engine: the UIController state machine         *)
(* (observer_ward/ui/core/controller.py), its screen-data records          *)
(* (observer_ward/ui/core/state.py), the KeyMap predicates                 *)
(* (observer_ward/ui/keymap.py), the entry points run_ui_selection and     *)
(* run_chat_ui (observer_ward/ui/__init__.py) and the StylePersistence     *)
(* collaborator (observer_ward/style_persistence.py).                      *)
(*                                                                         *)
(* Python strings are sequences of one-character tokens; a key event is a  *)
(* token.  Optional values are records: None, or [val |-> v] for ints and  *)
(* strings, or the data record itself.  Dicts keep insertion order and are *)
(* sequences of entries.                                                   *)
(***************************************************************************)
EXTENDS Integers, Sequences, FiniteSets, TLC

VARIABLES
    context,    \* UIController.context : UIContext
    config,     \* the caller's AppConfig object (the attributes the UI reads and writes)
    disk,       \* the files behind StylePersistence and the commentator_styles module
    loop,       \* UIController.run: _running, needs_redraw and the position (pc)
    session,    \* arguments of the entry point: kind of session and the styles dict handed in
    ret,        \* value returned by run_ui_selection / run_chat_ui (None while running)
    input       \* the user: the key sequence they planned and what is left of it
                \* (None when they type freely), and how many keys so far changed
                \* a setting or a file

vars == <<context, config, disk, loop, session, ret, input>>

None == [none |-> TRUE]
Some(v) == [val |-> v]

Max2(a, b) == IF a >= b THEN a ELSE b
Min2(a, b) == IF a <= b THEN a ELSE b

----------------------------------------------------------------------------
(* Bounds of the model *)

\* longest digit string typed into a NumberInput
MaxDigits == 2
\* longest chat message typed into a TextInput
MaxText == 2
\* most Down keys of a scripted selection scenario
MaxDown == 3
\* most styles the STYLES dict grows to by copying
MaxStyles == 3
\* longest style name and longest style content typed in the editor
MaxNameLen == 1
MaxContentLen == 1
\* most keys of one session that change a config attribute or a file
MaxEdits == 1
\* longest favourites list handed to toggle_favorite
MaxFavorites == 2
\* most save_styles / load_styles round trips of one caller
MaxRounds == 2
\* longest name and longest content handed to validate_style
MaxArgLen == 2
\* number of bits of an image hash, and the last reading of time.monotonic()
HashBits == 3
MaxClock == 2

----------------------------------------------------------------------------
(* UIState *)

STYLE_SELECTION == "style_selection"
STYLE_MANAGER == "style_manager"
STYLE_EDITOR == "style_editor"
SETTINGS == "settings"
NUMBER_INPUT == "number_input"
CONFIRMATION == "confirmation"
CONFIRMED == "confirmed"
CANCELLED == "cancelled"
TEXT_INPUT == "text_input"

TerminalStates == {CONFIRMED, CANCELLED}

----------------------------------------------------------------------------
(* KeyMap.  Control characters and two-character arrow tokens are written  *)
(* with their Python escapes; Cyrillic letters by their code points.       *)

UP_KEYS == {"\\xe0H", "\\x1b[A", "\\x1bOA"}
DOWN_KEYS == {"\\xe0P", "\\x1b[B", "\\x1bOB"}
LEFT_KEYS == {"\\xe0K", "\\x1b[D", "\\x1bOD"}
RIGHT_KEYS == {"\\xe0M", "\\x1b[C", "\\x1bOC"}
ENTER_KEYS == {"\r", "\n", "\r\n"}
ESC_KEY == "\\x1b"
BACKSPACE_KEY == "\\x08"
DIGIT_KEYS == {"0", "1", "2", "3", "4", "5", "6", "7", "8", "9"}

is_up(key) == key \in UP_KEYS
is_down(key) == key \in DOWN_KEYS
is_left(key) == key \in LEFT_KEYS
is_right(key) == key \in RIGHT_KEYS
is_enter(key) == key \in ENTER_KEYS
is_digit(key) == key \in DIGIT_KEYS
is_quit(key) == key \in {"q", "Q", "U+0439", "U+0419", ESC_KEY}
is_settings(key) == key \in {"9"}
is_edit(key) == key \in {"e", "E", "U+0443", "U+0423"}
is_add(key) == key \in {"a", "A", "U+0444", "U+0424"}
is_delete(key) == key \in {"d", "D", "U+0432", "U+0412"}
is_tab(key) == key = "\t"
is_copy(key) == key \in {"c", "C", "U+0441", "U+0421"}
is_export(key) == key \in {"x", "X", "U+0447", "U+0427"}
is_import(key) == key \in {"i", "I", "U+0448", "U+0428"}
is_favorite(key) == key \in {"f", "F", "U+0430", "U+0410"}
is_sort(key) == key \in {"s", "S", "U+044B", "U+042B"}

\* the one-character tokens for which Python's str.isprintable() is true
PrintableChars ==
    DIGIT_KEYS \cup
    {"a", "b", "c", "d", "e", "f", "i", "n", "q", "s", "x", "y", "z",
     "A", "B", "C", "D", "E", "F", "I", "N", "Q", "S", "X", "Y", "Z",
     "U+0439", "U+0419", "U+0443", "U+0423", "U+0444", "U+0424",
     "U+0432", "U+0412", "U+0441", "U+0421", "U+0447", "U+0427",
     "U+0448", "U+0428", "U+0430", "U+0410", "U+044B", "U+042B",
     "_", "-", "@", " ", "\"", "\\", "{", "}"}

is_printable(key) == key \in PrintableChars /\ key \notin {" ", "\t", "\n", "\r"}

----------------------------------------------------------------------------
(* Strings *)

\* int(s) for a string of ASCII digits
RECURSIVE ParseInt(_)
ParseInt(s) ==
    IF s = <<>> THEN 0
    ELSE 10 * ParseInt(SubSeq(s, 1, Len(s) - 1))
         + (CHOOSE d \in 0..9 :
                <<"0", "1", "2", "3", "4", "5", "6", "7", "8", "9">>[d + 1] = s[Len(s)])

\* s[:i] + c + s[i:]
Splice(s, i, c) == SubSeq(s, 1, i) \o <<c>> \o SubSeq(s, i + 1, Len(s))
\* s[:i-1] + s[i:]
Cut(s, i) == SubSeq(s, 1, i - 1) \o SubSeq(s, i + 1, Len(s))

----------------------------------------------------------------------------
(* Screen-data records (state.py) *)

\* C3 variant: get_selected_item that ignores selected_index
get_selected_item_first(data) ==
    IF data.items # <<>> THEN data.items[1] ELSE None

\* SelectionData.get_selected_item
get_selected_item(data) ==
    IF 0 <= data.selected_index /\ data.selected_index < Len(data.items)
    THEN data.items[data.selected_index + 1]
    ELSE None

\* NumberInputData(prompt, default_value) as _transition_to_number_input builds it
NumberInputData(default, target_attr, previous_state) ==
    [current_value |-> <<>>, default_value |-> default,
     min_value |-> None, max_value |-> None, result |-> None,
     target_attr |-> target_attr, previous_state |-> previous_state]

\* NumberInputData.append_digit
append_digit(data, digit) == [data EXCEPT !.current_value = @ \o <<digit>>]

\* NumberInputData.backspace
number_backspace(data) ==
    IF data.current_value # <<>>
    THEN [data EXCEPT !.current_value = SubSeq(@, 1, Len(@) - 1)]
    ELSE data

\* the value NumberInputData.confirm tries: int(current_value), or the default
confirm_value(data) ==
    IF data.current_value # <<>> THEN ParseInt(data.current_value) ELSE data.default_value

\* C5 variant: confirm that does not test max_value
confirm_ok_nomax(data) ==
    ~(data.min_value # None /\ confirm_value(data) < data.min_value.val)

\* NumberInputData.confirm: the bool it returns
confirm_ok(data) ==
    LET val == confirm_value(data) IN
    /\ ~(data.min_value # None /\ val < data.min_value.val)
    /\ ~(data.max_value # None /\ val > data.max_value.val)

\* NumberInputData.confirm: the record afterwards
confirm(data) ==
    IF confirm_ok(data) THEN [data EXCEPT !.result = Some(confirm_value(data))] ELSE data

\* TextInputData methods
text_insert_char(data, char) ==
    [data EXCEPT !.current_value = Splice(@, data.cursor_position, char),
                 !.cursor_position = @ + 1]

\* C11 variant: backspace without the cursor_position > 0 test
text_backspace_unguarded(data) ==
    [data EXCEPT !.current_value = Cut(@, data.cursor_position),
                 !.cursor_position = @ - 1]

text_backspace(data) ==
    IF data.cursor_position > 0
    THEN [data EXCEPT !.current_value = Cut(@, data.cursor_position),
                      !.cursor_position = @ - 1]
    ELSE data

text_move_cursor_left(data) == [data EXCEPT !.cursor_position = Max2(0, @ - 1)]

text_move_cursor_right(data) ==
    [data EXCEPT !.cursor_position = Min2(Len(data.current_value), @ + 1)]

\* UIContext() with its dataclass defaults
UIContext ==
    [state |-> STYLE_SELECTION,
     selection_data |-> None, settings_data |-> None, number_input_data |-> None,
     style_manager_data |-> None, style_editor_data |-> None,
     confirmation_data |-> None, text_input_data |-> None,
     style_key_mapping |-> <<>>,
     selected_style |-> None, selected_interval |-> 15, user_message |-> None]

----------------------------------------------------------------------------
(* Python containers *)

\* seq[i] with Python's indexing (a negative index counts from the end)
PyIndex(seq, i) == IF i >= 0 THEN seq[i + 1] ELSE seq[Len(seq) + i + 1]

\* dicts are sequences of [key, val] entries in insertion order
DictKeys(d) == [i \in 1..Len(d) |-> d[i].key]
DictHas(d, k) == \E i \in 1..Len(d) : d[i].key = k
DictGet(d, k) == d[CHOOSE i \in 1..Len(d) : d[i].key = k].val
DictDel(d, k) == SelectSeq(d, LAMBDA e : e.key # k)
\* d[k] = v: an existing key keeps its place, a new key goes last
DictSet(d, k, v) ==
    IF DictHas(d, k)
    THEN [i \in 1..Len(d) |-> IF d[i].key = k THEN [key |-> k, val |-> v] ELSE d[i]]
    ELSE Append(d, [key |-> k, val |-> v])

----------------------------------------------------------------------------
(* UIController: StyleSelection, Settings, NumberInput, TextInput.         *)
(* A handler maps the world w = [ctx, cfg, disk] before the key to the     *)
(* world after it.                                                         *)

\* the settings list run_ui_selection installs
SettingsList ==
    << [key |-> "1", name |-> "Silent Mode", attr |-> "silent_mode", type |-> "bool"],
       [key |-> "2", name |-> "Disable Cache", attr |-> "disable_cache", type |-> "bool"],
       [key |-> "3", name |-> "Strict Interval", attr |-> "strict_interval", type |-> "bool"],
       [key |-> "4", name |-> "Screenshot Width", attr |-> "screenshot_width", type |-> "int"],
       [key |-> "5", name |-> "Screenshot Height", attr |-> "screenshot_height", type |-> "int"],
       [key |-> "6", name |-> "Monitor Index", attr |-> "screenshot_monitor_index",
        type |-> "int"] >>

\* C28 variant: _transition_to_number_input that moves the settings highlight to the top
transition_to_number_input_top(w, default, target_attr) ==
    [w EXCEPT !.ctx.number_input_data = NumberInputData(default, target_attr, w.ctx.state),
              !.ctx.settings_data = IF @ # None THEN [@ EXCEPT !.selected_index = 0] ELSE @,
              !.ctx.state = NUMBER_INPUT]

transition_to_number_input(w, default, target_attr) ==
    [w EXCEPT !.ctx.number_input_data = NumberInputData(default, target_attr, w.ctx.state),
              !.ctx.state = NUMBER_INPUT]

\* C4 variant: _apply_number_input_result that stores a setting's value as the interval too
apply_number_input_result_both(w) ==
    LET data == w.ctx.number_input_data IN
    IF data = None \/ data.result = None THEN w
    ELSE IF data.target_attr # None
         THEN [w EXCEPT !.cfg[data.target_attr.val] = data.result.val,
                        !.ctx.selected_interval = data.result.val,
                        !.ctx.state = SETTINGS]
         ELSE [w EXCEPT !.ctx.selected_interval = data.result.val,
                        !.ctx.state = CONFIRMED]

apply_number_input_result(w) ==
    LET data == w.ctx.number_input_data IN
    IF data = None \/ data.result = None THEN w
    ELSE IF data.target_attr # None
         THEN [w EXCEPT !.cfg = IF w.ctx.settings_data # None
                                THEN [@ EXCEPT ![data.target_attr.val] = data.result.val]
                                ELSE @,
                        !.ctx.state = SETTINGS]
         ELSE [w EXCEPT !.ctx.selected_interval = data.result.val,
                        !.ctx.state = CONFIRMED]

\* C6 variant: _cancel_number_input that always goes back to the style list
cancel_number_input_home(w) == [w EXCEPT !.ctx.state = STYLE_SELECTION]

cancel_number_input(w) ==
    LET data == w.ctx.number_input_data IN
    [w EXCEPT !.ctx.state = IF data # None THEN data.previous_state ELSE STYLE_SELECTION]

\* `key in data.items`: items holds (key, name) tuples and key is a str, and a
\* str never equals a tuple, so the membership test is false for every key
key_in_items(key, items) == FALSE

handle_number_input_keys(w, key) ==
    LET data == w.ctx.number_input_data IN
    IF data = None THEN w
    ELSE IF is_digit(key) THEN [w EXCEPT !.ctx.number_input_data = append_digit(data, key)]
    ELSE IF key = BACKSPACE_KEY THEN [w EXCEPT !.ctx.number_input_data = number_backspace(data)]
    ELSE IF is_enter(key)
         THEN IF confirm_ok(data)
              THEN apply_number_input_result([w EXCEPT !.ctx.number_input_data = confirm(data)])
              ELSE [w EXCEPT !.ctx.number_input_data = confirm(data)]
    ELSE IF key = ESC_KEY THEN cancel_number_input(w)
    ELSE w

\* C9 variant: _handle_settings_keys whose Down wraps around to the first entry
handle_settings_keys_wrap(w, key) ==
    LET data == w.ctx.settings_data IN
    IF data = None THEN w
    ELSE IF is_up(key)
         THEN [w EXCEPT !.ctx.settings_data.selected_index = Max2(0, @ - 1)]
    ELSE IF is_down(key)
         THEN [w EXCEPT !.ctx.settings_data.selected_index = (@ + 1) % Len(data.settings)]
    ELSE IF is_quit(key) THEN [w EXCEPT !.ctx.state = STYLE_SELECTION]
    ELSE w

handle_settings_keys(w, key) ==
    LET data == w.ctx.settings_data IN
    IF data = None THEN w
    ELSE IF is_up(key)
         THEN [w EXCEPT !.ctx.settings_data.selected_index = Max2(0, @ - 1)]
    ELSE IF is_down(key)
         THEN [w EXCEPT !.ctx.settings_data.selected_index =
                            Min2(Len(data.settings) - 1, @ + 1)]
    ELSE IF is_enter(key)
         THEN LET entry == PyIndex(data.settings, data.selected_index)
                  current == w.cfg[entry.attr]
              IN  IF entry.type = "bool" THEN [w EXCEPT !.cfg[entry.attr] = ~current]
                  ELSE IF entry.type = "int"
                       THEN transition_to_number_input(w, current, Some(entry.attr))
                  ELSE w
    ELSE IF is_quit(key) THEN [w EXCEPT !.ctx.state = STYLE_SELECTION]
    ELSE w

\* C8 variant: _handle_text_input_keys whose Esc branch stores the buffer as the message
handle_text_input_keys_esc(w, key) ==
    LET data == w.ctx.text_input_data IN
    IF data = None THEN w
    ELSE IF is_enter(key)
         THEN [w EXCEPT !.ctx.user_message = Some(data.current_value),
                        !.ctx.state = CONFIRMED]
    ELSE IF key = ESC_KEY
         THEN [w EXCEPT !.ctx.user_message = Some(data.current_value),
                        !.ctx.state = CANCELLED]
    ELSE IF is_printable(key)
         THEN [w EXCEPT !.ctx.text_input_data = text_insert_char(data, key)]
    ELSE w

handle_text_input_keys(w, key) ==
    LET data == w.ctx.text_input_data IN
    IF data = None THEN w
    ELSE IF is_enter(key)
         THEN [w EXCEPT !.ctx.user_message = Some(data.current_value),
                        !.ctx.state = CONFIRMED]
    ELSE IF key = ESC_KEY THEN [w EXCEPT !.ctx.state = CANCELLED]
    ELSE IF key = BACKSPACE_KEY THEN [w EXCEPT !.ctx.text_input_data = text_backspace(data)]
    ELSE IF is_left(key) THEN [w EXCEPT !.ctx.text_input_data = text_move_cursor_left(data)]
    ELSE IF is_right(key) THEN [w EXCEPT !.ctx.text_input_data = text_move_cursor_right(data)]
    ELSE IF is_printable(key)
         THEN [w EXCEPT !.ctx.text_input_data = text_insert_char(data, key)]
    ELSE w

\* UIController.transition_to_chat (the history is only displayed)
transition_to_chat(ctx) ==
    [ctx EXCEPT !.text_input_data = [current_value |-> <<>>, cursor_position |-> 0],
                !.state = TEXT_INPUT]

----------------------------------------------------------------------------
(* Characters: case mapping and code-point order *)

LowerLetters ==
    <<"a", "b", "c", "d", "e", "f", "g", "h", "i", "j", "k", "l", "m",
      "n", "o", "p", "q", "r", "s", "t", "u", "v", "w", "x", "y", "z",
      "U+0430", "U+0432", "U+0439", "U+0441", "U+0443", "U+0444", "U+0447", "U+0448",
      "U+044B">>
UpperLetters ==
    <<"A", "B", "C", "D", "E", "F", "G", "H", "I", "J", "K", "L", "M",
      "N", "O", "P", "Q", "R", "S", "T", "U", "V", "W", "X", "Y", "Z",
      "U+0410", "U+0412", "U+0419", "U+0421", "U+0423", "U+0424", "U+0427", "U+0428",
      "U+042B">>
Digits == <<"0", "1", "2", "3", "4", "5", "6", "7", "8", "9">>

SeqRange(q) == {q[i] : i \in 1..Len(q)}
IndexOf(q, x) == CHOOSE i \in 1..Len(q) : q[i] = x

is_lower(c) == c \in SeqRange(LowerLetters)
is_upper(c) == c \in SeqRange(UpperLetters)
is_alpha(c) == is_lower(c) \/ is_upper(c)
\* str.isalnum() of one character
is_alnum(c) == is_alpha(c) \/ c \in SeqRange(Digits)
\* str.upper() / str.lower() of one character
upper(c) == IF is_lower(c) THEN UpperLetters[IndexOf(LowerLetters, c)] ELSE c
lower(c) == IF is_upper(c) THEN LowerLetters[IndexOf(UpperLetters, c)] ELSE c

Whitespace == {" ", "\t", "\n", "\r"}
\* `not s or not s.strip()`
is_blank(s) == \A i \in 1..Len(s) : s[i] \in Whitespace

\* the characters in code-point order
CodeOrder ==
    <<"\t", "\n", "\r", " ", "-">> \o Digits \o <<"@">> \o SubSeq(UpperLetters, 1, 26)
    \o <<"_">> \o SubSeq(LowerLetters, 1, 26)
    \o SubSeq(UpperLetters, 27, 35) \o SubSeq(LowerLetters, 27, 35)
Code(c) == IndexOf(CodeOrder, c)

\* a < b for Python strings
RECURSIVE StrLess(_, _)
StrLess(a, b) ==
    IF b = <<>> THEN FALSE
    ELSE IF a = <<>> THEN TRUE
    ELSE IF Code(a[1]) # Code(b[1]) THEN Code(a[1]) < Code(b[1])
    ELSE StrLess(Tail(a), Tail(b))

\* sorted(names) for a set of strings
RECURSIVE SortedSet(_)
SortedSet(S) ==
    IF S = {} THEN <<>>
    ELSE LET m == CHOOSE x \in S : \A y \in S \ {x} : StrLess(x, y)
         IN  <<m>> \o SortedSet(S \ {m})
sorted(names) == SortedSet(SeqRange(names))

Reverse(q) == [i \in 1..Len(q) |-> q[Len(q) + 1 - i]]

\* str(n) as a string, for the n the model reaches
str(n) == IF n < 10 THEN <<Digits[n + 1]>> ELSE <<Digits[(n \div 10) + 1], Digits[(n % 10) + 1]>>

\* k.replace('_', ' ').title()
title(k) ==
    [i \in 1..Len(k) |->
        IF k[i] = "_" THEN " "
        ELSE IF i = 1 \/ ~is_alpha(k[i - 1]) THEN upper(k[i])
        ELSE lower(k[i])]

\* list.index(x), or -1 where Python raises ValueError
index_of(q, x) == IF x \in SeqRange(q) THEN (CHOOSE i \in 1..Len(q) : q[i] = x /\ \A j \in 1..(i - 1) : q[j] # x) - 1 ELSE -1

----------------------------------------------------------------------------
(* StylePersistence.  disk.styles is the STYLES dict ast.parse reads from      *)
(* commentator_styles.py (empty when the file has a syntax error, which       *)
(* disk.syntax_error records), disk.lines the number of '{' minus the number  *)
(* of '}' of each line of that file from the line 'STYLES = {' on (the lines  *)
(* after the dict hold no braces), disk.favorites the list in                 *)
(* .favorites.json, disk.export the newest file of exports/ (None when there  *)
(* is none).                                                                  *)

\* content.replace('\\', '\\\\').replace('"""', r'\"\"\"'): the text between the triple quotes
escape_content(content) ==
    LET RECURSIVE triples(_)
        triples(t) ==
            IF Len(t) >= 3 /\ SubSeq(t, 1, 3) = <<"\"", "\"", "\"">>
            THEN <<"\\", "\"", "\\", "\"", "\\", "\"">> \o triples(SubSeq(t, 4, Len(t)))
            ELSE IF t = <<>> THEN <<>>
            ELSE <<Head(t)>> \o triples(Tail(t))
        RECURSIVE slashes(_)
        slashes(t) ==
            IF t = <<>> THEN <<>>
            ELSE (IF Head(t) = "\\" THEN <<"\\", "\\">> ELSE <<Head(t)>>) \o slashes(Tail(t))
    IN  triples(slashes(content))

\* the value ast.parse gives the literal """text""": a backslash takes the next
\* character, the first free """ closes the string, and what is left on the line
\* must be string literals again (they are concatenated); None is a SyntaxError
RECURSIVE read_content(_, _)
read_content(text, acc) ==
    LET line == text \o <<"\"", "\"", "\"">> IN
    IF text # <<>> /\ Head(text) = "\\" /\ Len(text) >= 2
    THEN read_content(SubSeq(text, 3, Len(text)), Append(acc, text[2]))
    ELSE IF SubSeq(line, 1, 3) = <<"\"", "\"", "\"">>
         THEN LET rest == SubSeq(line, 4, Len(line))
              IN  IF rest = <<>> \/ rest = <<"\"", "\"">> THEN Some(acc) ELSE None
    ELSE read_content(Tail(text), Append(acc, Head(text)))

\* ast.parse and _extract_dict_from_node on the STYLES text written for the
\* entries of written: None when a literal is a SyntaxError
ast_parse(written) ==
    IF \A i \in 1..Len(written) :
           read_content(escape_content(written[i].val.content), <<>>) # None
    THEN Some([i \in 1..Len(written) |->
                  [written[i] EXCEPT
                      !.val.content = read_content(escape_content(@), <<>>).val]])
    ELSE None

\* load_styles: {} when the file does not parse
load_styles(d) == d.styles

\* _generate_styles_dict: entries with blank content are skipped
generate_styles_dict(styles) == SelectSeq(styles, LAMBDA e : ~is_blank(e.val.content))

\* line.count('{') - line.count('}') for the lines of text; n counts the line being read
RECURSIVE brace_counts(_, _)
brace_counts(text, n) ==
    IF text = <<>> THEN <<n>>
    ELSE IF Head(text) = "\n" THEN <<n>> \o brace_counts(Tail(text), 0)
    ELSE brace_counts(Tail(text), n + (IF Head(text) = "{" THEN 1
                                       ELSE IF Head(text) = "}" THEN -1 ELSE 0))

\* the brace counts of the lines of the text _generate_styles_dict gives for written
RECURSIVE entry_lines(_)
entry_lines(written) ==
    IF written = <<>> THEN <<>>
    ELSE <<1, 0>> \o brace_counts(written[1].val.content, 0) \o <<-1>>
         \o entry_lines(Tail(written))
styles_text_lines(written) == <<1>> \o entry_lines(written) \o <<-1>>

\* end_idx of save_styles: the first line at which brace_count is back to 0
\* (None when there is no such line)
RECURSIVE find_end_idx(_, _, _)
find_end_idx(lines, i, brace_count) ==
    IF i > Len(lines) THEN None
    ELSE IF brace_count + lines[i] = 0 THEN Some(i)
    ELSE find_end_idx(lines, i + 1, brace_count + lines[i])

\* the value save_styles returns: ok is whether the file could be read and
\* rewritten; lines[end_idx + 1:] raises when end_idx is None
save_styles_ok(d, ok) == ok /\ find_end_idx(d.lines, 1, 0) # None

\* save_styles: the lines up to end_idx are replaced, the lines after it are
\* kept, and lines of the old dict among them make the file a SyntaxError
save_styles(d, styles, ok) ==
    LET written == generate_styles_dict(styles)
        tree == ast_parse(written)
        end_idx == find_end_idx(d.lines, 1, 0)
        kept == SubSeq(d.lines, end_idx.val + 1, Len(d.lines))
    IN  IF ~save_styles_ok(d, ok) THEN d
        ELSE IF tree = None \/ kept # <<>>
             THEN [d EXCEPT !.styles = <<>>, !.syntax_error = TRUE,
                            !.lines = styles_text_lines(written) \o kept]
        ELSE [d EXCEPT !.styles = tree.val, !.syntax_error = FALSE,
                       !.lines = styles_text_lines(written)]

\* C25 variant: validate_style that takes any non-empty content
validate_style_nonempty(name, content) ==
    IF is_blank(name) THEN "Style name cannot be empty"
    ELSE IF LET stripped == SelectSeq(name, LAMBDA c : c \notin {"_", "-"})
            IN  ~(stripped # <<>> /\ \A i \in 1..Len(stripped) : is_alnum(stripped[i]))
         THEN "Style name must be alphanumeric (underscores and hyphens allowed)"
    ELSE IF content = <<>> THEN "Style content cannot be empty"
    ELSE ""

validate_style(name, content) ==
    IF is_blank(name) THEN "Style name cannot be empty"
    ELSE IF LET stripped == SelectSeq(name, LAMBDA c : c \notin {"_", "-"})
            IN  ~(stripped # <<>> /\ \A i \in 1..Len(stripped) : is_alnum(stripped[i]))
         THEN "Style name must be alphanumeric (underscores and hyphens allowed)"
    ELSE IF is_blank(content) THEN "Style content cannot be empty"
    ELSE ""

load_favorites(d) == d.favorites
save_favorites(d, favorites, ok) == IF ok THEN [d EXCEPT !.favorites = favorites] ELSE d

\* C23 variant: toggle_favorite that puts a new favourite first
toggle_favorite_front(style_name, favorites) ==
    IF style_name \in SeqRange(favorites)
    THEN LET i == index_of(favorites, style_name) + 1
         IN  SubSeq(favorites, 1, i - 1) \o SubSeq(favorites, i + 1, Len(favorites))
    ELSE <<style_name>> \o favorites

toggle_favorite(style_name, favorites) ==
    IF style_name \in SeqRange(favorites)
    THEN LET i == index_of(favorites, style_name) + 1
         IN  SubSeq(favorites, 1, i - 1) \o SubSeq(favorites, i + 1, Len(favorites))
    ELSE Append(favorites, style_name)

\* a call toggle_favorite(style_name, favorites): the list object passed in as
\* the call leaves it (the code works on favorites.copy()) and the list returned
toggle_favorite_call(style_name, favorites) ==
    [favorites |-> favorites, returns |-> toggle_favorite(style_name, favorites)]

\* export_styles with the default path: a new newest file in exports/
export_styles(d, styles, ok) ==
    IF ok THEN [d EXCEPT !.exports_dir = TRUE, !.export = Some(styles)] ELSE d

\* import_styles(path, merge=True): None when the file cannot be read
RECURSIVE merge_styles(_, _)
merge_styles(existing, imported) ==
    IF imported = <<>> THEN existing
    ELSE merge_styles(IF DictHas(existing, imported[1].key) THEN existing
                      ELSE Append(existing, imported[1]),
                      Tail(imported))
import_styles(d, ok) == IF ok THEN Some(merge_styles(load_styles(d), d.export.val)) ELSE None

\* commentator_styles.list_styles after importlib.reload: the names of STYLES
\* (the reload raises when the file does not parse)
list_styles(d) == DictKeys(d.styles)

----------------------------------------------------------------------------
(* UIController: style manager, editor and delete confirmation.            *)
(* io.write is the outcome of the save_styles / save_favorites /           *)
(* export_styles call a handler makes, io.read that of reading the export  *)
(* file in import_styles.                                                  *)

\* favourites first, each group in the order of all_names
favorites_first(all_names, favorites) ==
    SelectSeq(all_names, LAMBDA n : n \in SeqRange(favorites))
    \o SelectSeq(all_names, LAMBDA n : n \notin SeqRange(favorites))

\* the (key, title) items and the key mapping _reload_style_selection builds
menu_items(keys) == [i \in 1..Len(keys) |-> [key |-> str(i), name |-> title(keys[i])]]
menu_mapping(keys) == [i \in 1..Len(keys) |-> [key |-> str(i), val |-> keys[i]]]

reload_style_selection(w) ==
    IF w.disk.module_loaded /\ ~w.disk.syntax_error /\ w.ctx.selection_data # None
    THEN LET keys == list_styles(w.disk)
             new_items == menu_items(keys)
         IN  [w EXCEPT !.ctx.selection_data.items = new_items,
                       !.ctx.style_key_mapping = menu_mapping(keys),
                       !.ctx.selection_data.selected_index =
                            IF @ >= Len(new_items) THEN Max2(0, Len(new_items) - 1) ELSE @]
    ELSE w

enter_style_manager(w) ==
    LET styles == load_styles(w.disk)
        favorites == load_favorites(w.disk)
    IN  [w EXCEPT !.ctx.style_manager_data =
                      [styles |-> styles,
                       style_names |-> favorites_first(sorted(DictKeys(styles)), favorites),
                       selected_index |-> 0,
                       message |-> "",
                       favorites |-> favorites,
                       sort_mode |-> "A-Z"],
                  !.ctx.state = STYLE_MANAGER]

\* the editor of a style that is being added
NewStyleEditorData ==
    [style_name |-> <<>>, original_name |-> <<>>, content |-> <<>>,
     cursor_position |-> 0, is_editing_name |-> TRUE, is_new |-> TRUE,
     error_message |-> ""]

\* C34 variant: _enter_style_editor that builds the record only for a new style
enter_style_editor_blank(w, is_new, style_name) ==
    [w EXCEPT !.ctx.style_editor_data = IF is_new THEN NewStyleEditorData ELSE @,
              !.ctx.state = STYLE_EDITOR]

enter_style_editor(w, is_new, style_name) ==
    LET data == w.ctx.style_manager_data IN
    [w EXCEPT !.ctx.style_editor_data =
                  IF is_new
                  THEN NewStyleEditorData
                  ELSE IF data # None /\ DictHas(data.styles, style_name)
                       THEN [style_name |-> style_name, original_name |-> style_name,
                             content |-> DictGet(data.styles, style_name).content,
                             cursor_position |-> Len(style_name), is_editing_name |-> TRUE,
                             is_new |-> FALSE, error_message |-> ""]
                  ELSE @,
              !.ctx.state = STYLE_EDITOR]

\* C13 variant: _save_style_from_editor that does not return on a validation error
save_style_from_editor_unvalidated(w, io) ==
    LET data == w.ctx.style_editor_data
        manager_data == w.ctx.style_manager_data
        kept == IF ~data.is_new /\ data.original_name # data.style_name
                THEN DictDel(manager_data.styles, data.original_name)
                ELSE manager_data.styles
        styles == DictSet(kept, data.style_name, [role |-> "system", content |-> data.content])
        names == sorted(DictKeys(styles))
    IN  IF data = None \/ manager_data = None THEN w
        ELSE IF save_styles_ok(w.disk, io.write)
             THEN [reload_style_selection(
                       [w EXCEPT !.disk = save_styles(w.disk, styles, TRUE),
                                 !.ctx.style_manager_data.styles = styles,
                                 !.ctx.style_manager_data.style_names = names,
                                 !.ctx.style_manager_data.message = "Successfully saved",
                                 !.ctx.style_manager_data.selected_index =
                                     index_of(names, data.style_name)])
                   EXCEPT !.ctx.state = STYLE_MANAGER]
        ELSE [w EXCEPT !.ctx.style_editor_data.error_message = "Failed to save style to file"]

save_style_from_editor(w, io) ==
    LET data == w.ctx.style_editor_data
        error == validate_style(data.style_name, data.content)
        manager_data == w.ctx.style_manager_data
        kept == IF ~data.is_new /\ data.original_name # data.style_name
                THEN DictDel(manager_data.styles, data.original_name)
                ELSE manager_data.styles
        styles == DictSet(kept, data.style_name, [role |-> "system", content |-> data.content])
        names == sorted(DictKeys(styles))
    IN  IF data = None THEN w
        ELSE IF error # "" THEN [w EXCEPT !.ctx.style_editor_data.error_message = error]
        ELSE IF manager_data = None THEN w
        ELSE IF save_styles_ok(w.disk, io.write)
             THEN [reload_style_selection(
                       [w EXCEPT !.disk = save_styles(w.disk, styles, TRUE),
                                 !.ctx.style_manager_data.styles = styles,
                                 !.ctx.style_manager_data.style_names = names,
                                 !.ctx.style_manager_data.message = "Successfully saved",
                                 !.ctx.style_manager_data.selected_index =
                                     index_of(names, data.style_name)])
                   EXCEPT !.ctx.state = STYLE_MANAGER]
        ELSE [w EXCEPT !.ctx.style_editor_data.error_message = "Failed to save style to file"]

show_delete_confirmation(w, style_name) ==
    [w EXCEPT !.ctx.confirmation_data =
                  [action_name |-> style_name, confirmed |-> None,
                   previous_state |-> STYLE_MANAGER],
              !.ctx.state = CONFIRMATION]

\* C22 variant: _execute_delete_style that drops the style from the manager
\* data before it saves
execute_delete_style_eager(w, style_name, io) ==
    LET data == w.ctx.style_manager_data
        styles == DictDel(data.styles, style_name)
    IN  IF data = None \/ ~DictHas(data.styles, style_name) THEN w
        ELSE IF save_styles_ok(w.disk, io.write)
             THEN LET d2 == save_styles(w.disk, styles, TRUE)
                      names == sorted(DictKeys(load_styles(d2)))
                  IN  [w EXCEPT !.disk = d2,
                                !.ctx.style_manager_data.styles = load_styles(d2),
                                !.ctx.style_manager_data.style_names = names,
                                !.ctx.style_manager_data.message = "Deleted",
                                !.ctx.style_manager_data.selected_index =
                                    IF names # <<>>
                                    THEN Max2(0, Min2(@, Len(names) - 1))
                                    ELSE 0]
        ELSE [w EXCEPT !.ctx.style_manager_data.styles = styles,
                       !.ctx.style_manager_data.message = "Failed to delete"]

execute_delete_style(w, style_name, io) ==
    LET data == w.ctx.style_manager_data IN
    IF data = None \/ ~DictHas(data.styles, style_name) THEN w
    ELSE IF save_styles_ok(w.disk, io.write)
         THEN LET d2 == save_styles(w.disk, DictDel(data.styles, style_name), TRUE)
                  names == sorted(DictKeys(load_styles(d2)))
              IN  [w EXCEPT !.disk = d2,
                            !.ctx.style_manager_data.styles = load_styles(d2),
                            !.ctx.style_manager_data.style_names = names,
                            !.ctx.style_manager_data.message = "Deleted",
                            !.ctx.style_manager_data.selected_index =
                                IF names # <<>>
                                THEN Max2(0, Min2(@, Len(names) - 1))
                                ELSE 0]
         ELSE [w EXCEPT !.ctx.style_manager_data.message = "Failed to delete"]

\* the first of name_copy, name_copy_2, name_copy_3, ... that is not a key of styles
RECURSIVE copy_name(_, _, _)
copy_name(base_name, styles, copy_num) ==
    LET new_name == IF copy_num = 1 THEN base_name \o <<"_", "c", "o", "p", "y">>
                    ELSE base_name \o <<"_", "c", "o", "p", "y", "_">> \o str(copy_num)
    IN  IF DictHas(styles, new_name) THEN copy_name(base_name, styles, copy_num + 1)
        ELSE new_name

\* C33 variant: a copy that also opens the editor record for the new style
copy_style_opened(w, style_name, io) ==
    LET data == w.ctx.style_manager_data IN
    IF data = None \/ ~DictHas(data.styles, style_name) THEN w
    ELSE LET new_name == copy_name(style_name, data.styles, 1)
             styles == DictSet(data.styles, new_name, DictGet(data.styles, style_name))
         IN  IF save_styles_ok(w.disk, io.write)
             THEN LET d2 == save_styles(w.disk, styles, TRUE)
                      names == favorites_first(sorted(DictKeys(load_styles(d2))),
                                               data.favorites)
                  IN  reload_style_selection(
                          [w EXCEPT !.disk = d2,
                                    !.ctx.style_manager_data.styles = load_styles(d2),
                                    !.ctx.style_manager_data.style_names = names,
                                    !.ctx.style_manager_data.selected_index =
                                        IF index_of(names, new_name) >= 0
                                        THEN index_of(names, new_name) ELSE @,
                                    !.ctx.style_manager_data.message = "Copied",
                                    !.ctx.style_editor_data = NewStyleEditorData])
             ELSE [w EXCEPT !.ctx.style_manager_data.message = "Failed to copy"]

copy_style(w, style_name, io) ==
    LET data == w.ctx.style_manager_data IN
    IF data = None \/ ~DictHas(data.styles, style_name) THEN w
    ELSE LET new_name == copy_name(style_name, data.styles, 1)
             styles == DictSet(data.styles, new_name, DictGet(data.styles, style_name))
         IN  IF save_styles_ok(w.disk, io.write)
             THEN LET d2 == save_styles(w.disk, styles, TRUE)
                      names == favorites_first(sorted(DictKeys(load_styles(d2))),
                                               data.favorites)
                  IN  reload_style_selection(
                          [w EXCEPT !.disk = d2,
                                    !.ctx.style_manager_data.styles = load_styles(d2),
                                    !.ctx.style_manager_data.style_names = names,
                                    !.ctx.style_manager_data.selected_index =
                                        IF index_of(names, new_name) >= 0
                                        THEN index_of(names, new_name) ELSE @,
                                    !.ctx.style_manager_data.message = "Copied"])
             ELSE [w EXCEPT !.ctx.style_manager_data.message = "Failed to copy"]

\* C17 variant: _toggle_favorite that keeps selected_index as it is
toggle_favorite_style_index(w, style_name, io) ==
    LET data == w.ctx.style_manager_data
        new_favorites == toggle_favorite(style_name, data.favorites)
        names == favorites_first(sorted(DictKeys(data.styles)), new_favorites)
    IN  IF data = None THEN w
        ELSE IF io.write
             THEN [w EXCEPT !.disk = save_favorites(w.disk, new_favorites, TRUE),
                            !.ctx.style_manager_data.favorites = new_favorites,
                            !.ctx.style_manager_data.style_names = names,
                            !.ctx.style_manager_data.message =
                                IF style_name \in SeqRange(new_favorites)
                                THEN "Starred" ELSE "Unstarred"]
             ELSE [w EXCEPT !.ctx.style_manager_data.message = "Failed to save favorites"]

toggle_favorite_style(w, style_name, io) ==
    LET data == w.ctx.style_manager_data
        new_favorites == toggle_favorite(style_name, data.favorites)
        names == favorites_first(sorted(DictKeys(data.styles)), new_favorites)
    IN  IF data = None THEN w
        ELSE IF io.write
             THEN [w EXCEPT !.disk = save_favorites(w.disk, new_favorites, TRUE),
                            !.ctx.style_manager_data.favorites = new_favorites,
                            !.ctx.style_manager_data.style_names = names,
                            !.ctx.style_manager_data.selected_index =
                                IF index_of(names, style_name) >= 0
                                THEN index_of(names, style_name) ELSE 0,
                            !.ctx.style_manager_data.message =
                                IF style_name \in SeqRange(new_favorites)
                                THEN "Starred" ELSE "Unstarred"]
             ELSE [w EXCEPT !.ctx.style_manager_data.message = "Failed to save favorites"]

export_all_styles(w, io) ==
    LET data == w.ctx.style_manager_data IN
    IF data = None THEN w
    ELSE IF io.write
         THEN [w EXCEPT !.disk = export_styles(w.disk, data.styles, TRUE),
                        !.ctx.style_manager_data.message = "Exported"]
         ELSE [w EXCEPT !.ctx.style_manager_data.message = "Export failed"]

\* C35 variant: an import that reloads styles and keeps the list of names
import_latest_styles_stale(w, io) ==
    LET data == w.ctx.style_manager_data
        merged_styles == import_styles(w.disk, io.read)
    IN  IF data = None THEN w
        ELSE IF ~w.disk.exports_dir
             THEN [w EXCEPT !.ctx.style_manager_data.message = "No exports folder found"]
        ELSE IF w.disk.export = None
             THEN [w EXCEPT !.ctx.style_manager_data.message = "No export files found"]
        ELSE IF merged_styles # None /\ merged_styles.val # <<>>
             THEN IF save_styles_ok(w.disk, io.write)
                  THEN LET d2 == save_styles(w.disk, merged_styles.val, TRUE)
                       IN  reload_style_selection(
                               [w EXCEPT !.disk = d2,
                                         !.ctx.style_manager_data.styles = load_styles(d2),
                                         !.ctx.style_manager_data.message = "Imported"])
                  ELSE [w EXCEPT !.ctx.style_manager_data.message =
                                     "Failed to save imported styles"]
        ELSE [w EXCEPT !.ctx.style_manager_data.message = "Import failed"]

import_latest_styles(w, io) ==
    LET data == w.ctx.style_manager_data
        merged_styles == import_styles(w.disk, io.read)
    IN  IF data = None THEN w
        ELSE IF ~w.disk.exports_dir
             THEN [w EXCEPT !.ctx.style_manager_data.message = "No exports folder found"]
        ELSE IF w.disk.export = None
             THEN [w EXCEPT !.ctx.style_manager_data.message = "No export files found"]
        ELSE IF merged_styles # None /\ merged_styles.val # <<>>
             THEN IF save_styles_ok(w.disk, io.write)
                  THEN LET d2 == save_styles(w.disk, merged_styles.val, TRUE)
                       IN  reload_style_selection(
                               [w EXCEPT !.disk = d2,
                                         !.ctx.style_manager_data.styles = load_styles(d2),
                                         !.ctx.style_manager_data.style_names =
                                             favorites_first(
                                                 sorted(DictKeys(load_styles(d2))),
                                                 data.favorites),
                                         !.ctx.style_manager_data.message = "Imported"])
                  ELSE [w EXCEPT !.ctx.style_manager_data.message =
                                     "Failed to save imported styles"]
        ELSE [w EXCEPT !.ctx.style_manager_data.message = "Import failed"]

\* C19 variant: _toggle_sort that reverses the list after putting the favourites first
toggle_sort_reversed(w) ==
    LET data == w.ctx.style_manager_data
        sort_mode == IF data.sort_mode = "A-Z" THEN "Z-A" ELSE "A-Z"
        ascending == favorites_first(sorted(DictKeys(data.styles)), data.favorites)
        names == IF sort_mode = "Z-A" THEN Reverse(ascending) ELSE ascending
    IN  IF data = None THEN w
        ELSE [w EXCEPT !.ctx.style_manager_data.sort_mode = sort_mode,
                       !.ctx.style_manager_data.style_names = names,
                       !.ctx.style_manager_data.selected_index =
                           IF @ >= Len(names) THEN Max2(0, Len(names) - 1) ELSE @,
                       !.ctx.style_manager_data.message = "Sorted"]

toggle_sort(w) ==
    LET data == w.ctx.style_manager_data
        sort_mode == IF data.sort_mode = "A-Z" THEN "Z-A" ELSE "A-Z"
        all_names == IF sort_mode = "Z-A" THEN Reverse(sorted(DictKeys(data.styles)))
                     ELSE sorted(DictKeys(data.styles))
        names == favorites_first(all_names, data.favorites)
    IN  IF data = None THEN w
        ELSE [w EXCEPT !.ctx.style_manager_data.sort_mode = sort_mode,
                       !.ctx.style_manager_data.style_names = names,
                       !.ctx.style_manager_data.selected_index =
                           IF @ >= Len(names) THEN Max2(0, Len(names) - 1) ELSE @,
                       !.ctx.style_manager_data.message = "Sorted"]

----------------------------------------------------------------------------
(* StyleEditorData methods *)

editor_insert_char(data, char) ==
    IF data.is_editing_name
    THEN [data EXCEPT !.style_name = Splice(@, data.cursor_position, char),
                      !.cursor_position = @ + 1]
    ELSE [data EXCEPT !.content = Splice(@, data.cursor_position, char),
                      !.cursor_position = @ + 1]

editor_move_cursor_left(data) == [data EXCEPT !.cursor_position = Max2(0, @ - 1)]

\* C12 variant: move_cursor_right without the min(len(text), .) clamp
editor_move_cursor_right_unclamped(data) == [data EXCEPT !.cursor_position = @ + 1]

editor_move_cursor_right(data) ==
    LET text == IF data.is_editing_name THEN data.style_name ELSE data.content
    IN  [data EXCEPT !.cursor_position = Min2(Len(text), @ + 1)]

----------------------------------------------------------------------------
(* Key handlers of the style screens *)

\* C37 variant: Enter on the style list keeps a style chosen earlier
handle_style_selection_keys_sticky(w, key) ==
    LET data == w.ctx.selection_data IN
    IF data = None THEN w
    ELSE IF is_up(key)
         THEN [w EXCEPT !.ctx.selection_data.selected_index = Max2(0, @ - 1)]
    ELSE IF is_down(key)
         THEN [w EXCEPT !.ctx.selection_data.selected_index =
                            Min2(Len(data.items) - 1, @ + 1)]
    ELSE IF is_enter(key)
         THEN LET selected == get_selected_item(data)
              IN  IF selected # None
                  THEN transition_to_number_input(
                           [w EXCEPT !.ctx.selected_style =
                                         IF @ = None THEN selected ELSE @],
                           w.ctx.selected_interval, None)
                  ELSE w
    ELSE IF is_quit(key) THEN [w EXCEPT !.ctx.state = CANCELLED]
    ELSE IF is_settings(key) THEN [w EXCEPT !.ctx.state = SETTINGS]
    ELSE IF is_edit(key) THEN enter_style_manager(w)
    ELSE IF key_in_items(key, data.items)
         THEN [w EXCEPT !.ctx.selection_data.selected_index =
                            index_of([i \in 1..Len(data.items) |-> data.items[i].key], key)]
    ELSE w

handle_style_selection_keys(w, key) ==
    LET data == w.ctx.selection_data IN
    IF data = None THEN w
    ELSE IF is_up(key)
         THEN [w EXCEPT !.ctx.selection_data.selected_index = Max2(0, @ - 1)]
    ELSE IF is_down(key)
         THEN [w EXCEPT !.ctx.selection_data.selected_index =
                            Min2(Len(data.items) - 1, @ + 1)]
    ELSE IF is_enter(key)
         THEN LET selected == get_selected_item(data)
              IN  IF selected # None
                  THEN transition_to_number_input(
                           [w EXCEPT !.ctx.selected_style = selected],
                           w.ctx.selected_interval, None)
                  ELSE w
    ELSE IF is_quit(key) THEN [w EXCEPT !.ctx.state = CANCELLED]
    ELSE IF is_settings(key) THEN [w EXCEPT !.ctx.state = SETTINGS]
    ELSE IF is_edit(key) THEN enter_style_manager(w)
    ELSE IF key_in_items(key, data.items)
         THEN [w EXCEPT !.ctx.selection_data.selected_index =
                            index_of([i \in 1..Len(data.items) |-> data.items[i].key], key)]
    ELSE w

handle_style_manager_keys(w, key, io) ==
    LET data == w.ctx.style_manager_data
        style_name == PyIndex(data.style_names, data.selected_index)
    IN
    IF data = None THEN w
    ELSE IF is_up(key)
         THEN [w EXCEPT !.ctx.style_manager_data.selected_index = Max2(0, @ - 1),
                        !.ctx.style_manager_data.message = ""]
    ELSE IF is_down(key)
         THEN [w EXCEPT !.ctx.style_manager_data.selected_index =
                            Min2(Len(data.style_names) - 1, @ + 1),
                        !.ctx.style_manager_data.message = ""]
    ELSE IF is_add(key) THEN enter_style_editor(w, TRUE, <<>>)
    ELSE IF is_edit(key)
         THEN IF data.style_names # <<>> THEN enter_style_editor(w, FALSE, style_name) ELSE w
    ELSE IF is_copy(key)
         THEN IF data.style_names # <<>> THEN copy_style(w, style_name, io) ELSE w
    ELSE IF is_favorite(key)
         THEN IF data.style_names # <<>> THEN toggle_favorite_style(w, style_name, io) ELSE w
    ELSE IF is_sort(key) THEN toggle_sort(w)
    ELSE IF is_delete(key)
         THEN IF data.style_names # <<>> THEN show_delete_confirmation(w, style_name) ELSE w
    ELSE IF is_export(key) THEN export_all_styles(w, io)
    ELSE IF is_import(key) THEN import_latest_styles(w, io)
    ELSE IF key = ESC_KEY
         THEN [reload_style_selection(w) EXCEPT !.ctx.state = STYLE_SELECTION]
    ELSE w

\* C15 variant: _handle_style_editor_keys that inserts a space in either field
handle_style_editor_keys_space(w, key, io) ==
    LET data == w.ctx.style_editor_data IN
    IF data = None THEN w
    ELSE IF is_tab(key)
         THEN [w EXCEPT !.ctx.style_editor_data =
                   [data EXCEPT !.is_editing_name = ~@,
                                !.cursor_position = IF ~data.is_editing_name
                                                    THEN Len(data.style_name)
                                                    ELSE Len(data.content),
                                !.error_message = ""]]
    ELSE IF is_enter(key)
         THEN IF data.is_editing_name THEN save_style_from_editor(w, io)
              ELSE [w EXCEPT !.ctx.style_editor_data =
                        [data EXCEPT !.content = Splice(@, data.cursor_position, "\n"),
                                     !.cursor_position = @ + 1,
                                     !.error_message = ""]]
    ELSE IF key = ESC_KEY THEN save_style_from_editor(w, io)
    ELSE IF key = BACKSPACE_KEY
         THEN [w EXCEPT !.ctx.style_editor_data =
                   IF data.cursor_position > 0
                   THEN IF data.is_editing_name
                        THEN [data EXCEPT !.style_name = Cut(@, data.cursor_position),
                                          !.cursor_position = @ - 1,
                                          !.error_message = ""]
                        ELSE [data EXCEPT !.content = Cut(@, data.cursor_position),
                                          !.cursor_position = @ - 1,
                                          !.error_message = ""]
                   ELSE [data EXCEPT !.error_message = ""]]
    ELSE IF key = " "
         THEN [w EXCEPT !.ctx.style_editor_data =
                   [editor_insert_char(data, key) EXCEPT !.error_message = ""]]
    ELSE IF is_left(key)
         THEN [w EXCEPT !.ctx.style_editor_data = editor_move_cursor_left(data)]
    ELSE IF is_right(key)
         THEN [w EXCEPT !.ctx.style_editor_data = editor_move_cursor_right(data)]
    ELSE IF is_printable(key)
         THEN [w EXCEPT !.ctx.style_editor_data =
                   [editor_insert_char(data, key) EXCEPT !.error_message = ""]]
    ELSE w

\* C38 variant: Esc in the editor goes back to the manager without saving
handle_style_editor_keys_cancel(w, key, io) ==
    LET data == w.ctx.style_editor_data IN
    IF data = None THEN w
    ELSE IF is_tab(key)
         THEN [w EXCEPT !.ctx.style_editor_data =
                   [data EXCEPT !.is_editing_name = ~@,
                                !.cursor_position = IF ~data.is_editing_name
                                                    THEN Len(data.style_name)
                                                    ELSE Len(data.content),
                                !.error_message = ""]]
    ELSE IF is_enter(key)
         THEN IF data.is_editing_name THEN save_style_from_editor(w, io)
              ELSE [w EXCEPT !.ctx.style_editor_data =
                        [data EXCEPT !.content = Splice(@, data.cursor_position, "\n"),
                                     !.cursor_position = @ + 1,
                                     !.error_message = ""]]
    ELSE IF key = ESC_KEY THEN [w EXCEPT !.ctx.state = STYLE_MANAGER]
    ELSE IF key = BACKSPACE_KEY
         THEN [w EXCEPT !.ctx.style_editor_data =
                   IF data.cursor_position > 0
                   THEN IF data.is_editing_name
                        THEN [data EXCEPT !.style_name = Cut(@, data.cursor_position),
                                          !.cursor_position = @ - 1,
                                          !.error_message = ""]
                        ELSE [data EXCEPT !.content = Cut(@, data.cursor_position),
                                          !.cursor_position = @ - 1,
                                          !.error_message = ""]
                   ELSE [data EXCEPT !.error_message = ""]]
    ELSE IF key = " "
         THEN IF data.is_editing_name
              THEN [w EXCEPT !.ctx.style_editor_data.error_message =
                                 "Style names cannot contain spaces"]
              ELSE [w EXCEPT !.ctx.style_editor_data =
                        [data EXCEPT !.content = Splice(@, data.cursor_position, " "),
                                     !.cursor_position = @ + 1,
                                     !.error_message = ""]]
    ELSE IF is_left(key)
         THEN [w EXCEPT !.ctx.style_editor_data = editor_move_cursor_left(data)]
    ELSE IF is_right(key)
         THEN [w EXCEPT !.ctx.style_editor_data = editor_move_cursor_right(data)]
    ELSE IF is_printable(key)
         THEN [w EXCEPT !.ctx.style_editor_data =
                   [editor_insert_char(data, key) EXCEPT !.error_message = ""]]
    ELSE w

handle_style_editor_keys(w, key, io) ==
    LET data == w.ctx.style_editor_data IN
    IF data = None THEN w
    ELSE IF is_tab(key)
         THEN [w EXCEPT !.ctx.style_editor_data =
                   [data EXCEPT !.is_editing_name = ~@,
                                !.cursor_position = IF ~data.is_editing_name
                                                    THEN Len(data.style_name)
                                                    ELSE Len(data.content),
                                !.error_message = ""]]
    ELSE IF is_enter(key)
         THEN IF data.is_editing_name THEN save_style_from_editor(w, io)
              ELSE [w EXCEPT !.ctx.style_editor_data =
                        [data EXCEPT !.content = Splice(@, data.cursor_position, "\n"),
                                     !.cursor_position = @ + 1,
                                     !.error_message = ""]]
    ELSE IF key = ESC_KEY THEN save_style_from_editor(w, io)
    ELSE IF key = BACKSPACE_KEY
         THEN [w EXCEPT !.ctx.style_editor_data =
                   IF data.cursor_position > 0
                   THEN IF data.is_editing_name
                        THEN [data EXCEPT !.style_name = Cut(@, data.cursor_position),
                                          !.cursor_position = @ - 1,
                                          !.error_message = ""]
                        ELSE [data EXCEPT !.content = Cut(@, data.cursor_position),
                                          !.cursor_position = @ - 1,
                                          !.error_message = ""]
                   ELSE [data EXCEPT !.error_message = ""]]
    ELSE IF key = " "
         THEN IF data.is_editing_name
              THEN [w EXCEPT !.ctx.style_editor_data.error_message =
                                 "Style names cannot contain spaces"]
              ELSE [w EXCEPT !.ctx.style_editor_data =
                        [data EXCEPT !.content = Splice(@, data.cursor_position, " "),
                                     !.cursor_position = @ + 1,
                                     !.error_message = ""]]
    ELSE IF is_left(key)
         THEN [w EXCEPT !.ctx.style_editor_data = editor_move_cursor_left(data)]
    ELSE IF is_right(key)
         THEN [w EXCEPT !.ctx.style_editor_data = editor_move_cursor_right(data)]
    ELSE IF is_printable(key)
         THEN [w EXCEPT !.ctx.style_editor_data =
                   [editor_insert_char(data, key) EXCEPT !.error_message = ""]]
    ELSE w

\* key.lower() of a key token
key_lower(key) == lower(key)

handle_confirmation_keys(w, key, io) ==
    LET data == w.ctx.confirmation_data IN
    IF data = None THEN w
    ELSE IF key_lower(key) = "y"
         THEN [execute_delete_style(
                   [w EXCEPT !.ctx.confirmation_data.confirmed = Some(TRUE)],
                   data.action_name, io)
               EXCEPT !.ctx.state = data.previous_state]
    ELSE IF key_lower(key) = "n" \/ key = ESC_KEY
         THEN [w EXCEPT !.ctx.confirmation_data.confirmed = Some(FALSE),
                        !.ctx.state = data.previous_state]
    ELSE w

\* UIController._handle_keyboard
handle_keyboard(w, key, io) ==
    IF w.ctx.state = STYLE_SELECTION THEN handle_style_selection_keys(w, key)
    ELSE IF w.ctx.state = STYLE_MANAGER THEN handle_style_manager_keys(w, key, io)
    ELSE IF w.ctx.state = STYLE_EDITOR THEN handle_style_editor_keys(w, key, io)
    ELSE IF w.ctx.state = CONFIRMATION THEN handle_confirmation_keys(w, key, io)
    ELSE IF w.ctx.state = SETTINGS THEN handle_settings_keys(w, key)
    ELSE IF w.ctx.state = NUMBER_INPUT THEN handle_number_input_keys(w, key)
    ELSE IF w.ctx.state = TEXT_INPUT THEN handle_text_input_keys(w, key)
    ELSE w

----------------------------------------------------------------------------
(* UIController.run and the entry points *)

\* _render_current_screen: the screen shown, the error text when the data record
\* is absent, or the exception raised
render_current_screen(ctx) ==
    IF ctx.state = STYLE_SELECTION
    THEN IF ctx.selection_data # None THEN STYLE_SELECTION ELSE "No styles available"
    ELSE IF ctx.state = STYLE_MANAGER
    THEN IF ctx.style_manager_data # None THEN STYLE_MANAGER ELSE "UnboundLocalError"
    ELSE IF ctx.state = STYLE_EDITOR
    THEN IF ctx.style_editor_data # None THEN STYLE_EDITOR ELSE "No style editor data"
    ELSE IF ctx.state = CONFIRMATION
    THEN IF ctx.confirmation_data # None THEN CONFIRMATION ELSE "No confirmation data"
    ELSE IF ctx.state = SETTINGS
    THEN IF ctx.settings_data # None THEN SETTINGS ELSE "No settings available"
    ELSE IF ctx.state = NUMBER_INPUT
    THEN IF ctx.number_input_data # None THEN NUMBER_INPUT ELSE "No input data"
    ELSE IF ctx.state = TEXT_INPUT
    THEN IF ctx.text_input_data # None THEN TEXT_INPUT ELSE "Error: No text input data"
    ELSE "Unknown state"

\* C2 variant: a while condition that also ends the loop on the settings screen
loop_continues_settings(running, ctx) ==
    running /\ ctx.state \notin (TerminalStates \cup {SETTINGS})

\* the while condition of run
loop_continues(running, ctx) == running /\ ctx.state \notin TerminalStates

\* the menu main() builds from list_styles(): key str(i) -> (title, internal name)
menu_styles(keys) ==
    [i \in 1..Len(keys) |-> [key |-> str(i), val |-> [name |-> title(keys[i]), style |-> keys[i]]]]

\* C7 variant: run_ui_selection that leaves selected_interval at the UIContext default
selection_context_default(styles, cfg) ==
    [UIContext EXCEPT
        !.selection_data = [items |-> [i \in 1..Len(styles) |->
                                          [key |-> styles[i].key, name |-> styles[i].val.name]],
                            selected_index |-> 0],
        !.style_key_mapping = [i \in 1..Len(styles) |->
                                  [key |-> styles[i].key, val |-> styles[i].val.style]],
        !.settings_data = [settings |-> SettingsList, selected_index |-> 0]]

\* the context run_ui_selection sets up before run()
selection_context(styles, cfg) ==
    [UIContext EXCEPT
        !.selection_data = [items |-> [i \in 1..Len(styles) |->
                                          [key |-> styles[i].key, name |-> styles[i].val.name]],
                            selected_index |-> 0],
        !.selected_interval = cfg.interval_seconds,
        !.style_key_mapping = [i \in 1..Len(styles) |->
                                  [key |-> styles[i].key, val |-> styles[i].val.style]],
        !.settings_data = [settings |-> SettingsList, selected_index |-> 0]]

\* what run_ui_selection returns for the final context: <<style, interval>>
run_ui_selection_result(styles, result) ==
    IF result.state = CONFIRMED /\ result.selected_style # None
    THEN LET key == result.selected_style.key
             display_name == result.selected_style.name
             actual_style_name == IF DictHas(result.style_key_mapping, key)
                                  THEN DictGet(result.style_key_mapping, key)
                                  ELSE key
         IN  IF DictHas(styles, key)
             THEN [style |-> DictGet(styles, key), interval |-> result.selected_interval]
             ELSE [style |-> [name |-> display_name, style |-> actual_style_name],
                   interval |-> result.selected_interval]
    ELSE [style |-> None, interval |-> result.selected_interval]

\* what run_chat_ui returns
run_chat_ui_result(result) ==
    IF result.state = CONFIRMED THEN result.user_message ELSE None

----------------------------------------------------------------------------
(* State machine *)

----------------------------------------------------------------------------
(* ChangeDetector (observer_ward/hashing.py).  An image hash is the set of *)
(* its one bits; self is the record of the detector's attributes (without  *)
(* last_change_ts, which nothing reads); now_m is time.monotonic().        *)

ImageHashes == SUBSET (1..HashBits)

\* ImageHash.__sub__: the number of bits that differ
hash_distance(a, b) == Cardinality((a \ b) \cup (b \ a))

\* ChangeDetector.__init__
ChangeDetector ==
    [last_hash |-> None, last_change_monotonic |-> None, last_api_result |-> None,
     cache_expire_monotonic |-> 0]

\* C30 variant: decide_change that calls only when the distance exceeds the threshold
decide_change_above(self, curr_hash, cfg, now_m) ==
    IF curr_hash = None THEN [self |-> self, returns |-> "skip"]
    ELSE IF self.last_hash = None
         THEN [self |-> [self EXCEPT !.last_hash = curr_hash,
                                     !.last_change_monotonic = Some(now_m)],
               returns |-> "call"]
    ELSE IF hash_distance(self.last_hash.val, curr_hash.val) > cfg.hash_threshold
         THEN [self |-> [self EXCEPT !.last_hash = curr_hash,
                                     !.last_change_monotonic = Some(now_m)],
               returns |-> "call"]
    ELSE IF self.last_api_result \notin {None, Some("")}
            /\ now_m < self.cache_expire_monotonic
         THEN [self |-> self, returns |-> "use_cache"]
    ELSE IF /\ cfg.only_on_change
            /\ self.last_change_monotonic # None
            /\ now_m - self.last_change_monotonic.val >= cfg.stable_window_seconds
         THEN [self |-> self, returns |-> "skip"]
    ELSE [self |-> self, returns |-> "skip"]

\* C31 variant: decide_change that follows the screen while it answers from the cache
decide_change_drift(self, curr_hash, cfg, now_m) ==
    IF curr_hash = None THEN [self |-> self, returns |-> "skip"]
    ELSE IF self.last_hash = None
         THEN [self |-> [self EXCEPT !.last_hash = curr_hash,
                                     !.last_change_monotonic = Some(now_m)],
               returns |-> "call"]
    ELSE IF hash_distance(self.last_hash.val, curr_hash.val) >= cfg.hash_threshold
         THEN [self |-> [self EXCEPT !.last_hash = curr_hash,
                                     !.last_change_monotonic = Some(now_m)],
               returns |-> "call"]
    ELSE IF self.last_api_result \notin {None, Some("")}
            /\ now_m < self.cache_expire_monotonic
         THEN [self |-> [self EXCEPT !.last_hash = curr_hash], returns |-> "use_cache"]
    ELSE IF /\ cfg.only_on_change
            /\ self.last_change_monotonic # None
            /\ now_m - self.last_change_monotonic.val >= cfg.stable_window_seconds
         THEN [self |-> self, returns |-> "skip"]
    ELSE [self |-> self, returns |-> "skip"]

\* decide_change: the detector after the call and the decision returned
decide_change(self, curr_hash, cfg, now_m) ==
    IF curr_hash = None THEN [self |-> self, returns |-> "skip"]
    ELSE IF self.last_hash = None
         THEN [self |-> [self EXCEPT !.last_hash = curr_hash,
                                     !.last_change_monotonic = Some(now_m)],
               returns |-> "call"]
    ELSE IF hash_distance(self.last_hash.val, curr_hash.val) >= cfg.hash_threshold
         THEN [self |-> [self EXCEPT !.last_hash = curr_hash,
                                     !.last_change_monotonic = Some(now_m)],
               returns |-> "call"]
    ELSE IF self.last_api_result \notin {None, Some("")}
            /\ now_m < self.cache_expire_monotonic
         THEN [self |-> self, returns |-> "use_cache"]
    ELSE IF /\ cfg.only_on_change
            /\ self.last_change_monotonic # None
            /\ now_m - self.last_change_monotonic.val >= cfg.stable_window_seconds
         THEN [self |-> self, returns |-> "skip"]
    ELSE [self |-> self, returns |-> "skip"]

cache_set(self, result, ttl, disable_cache, now_m) ==
    IF disable_cache THEN self
    ELSE [self EXCEPT !.last_api_result = Some(result),
                      !.cache_expire_monotonic = now_m + ttl]

----------------------------------------------------------------------------
(* The running program: one step of a session *)

W == [ctx |-> context, cfg |-> config, disk |-> disk]

IOs == [write : BOOLEAN, read : BOOLEAN]
\* every persistence call succeeds
IOOk == [write |-> TRUE, read |-> TRUE]

\* the while loop of run is at its head and its condition holds
AtLoopHead == loop.pc = "run" /\ loop_continues(loop.running, context)

\* the render of this iteration raises
RenderRaises == loop.needs_redraw /\ render_current_screen(context) = "UnboundLocalError"

\* one iteration of the while loop of run that polls key and handles it
Deliver(key, io) ==
    LET w2 == handle_keyboard(W, key, io) IN
    /\ AtLoopHead
    /\ IF RenderRaises
       THEN /\ loop' = [loop EXCEPT !.pc = "raised"]
            /\ UNCHANGED <<context, config, disk>>
       ELSE /\ loop' = [loop EXCEPT !.needs_redraw = TRUE]
            /\ context' = w2.ctx
            /\ config' = w2.cfg
            /\ disk' = w2.disk
    /\ UNCHANGED <<session, ret>>

\* one iteration that finds no event
NoEvent ==
    /\ AtLoopHead
    /\ loop' = IF RenderRaises THEN [loop EXCEPT !.pc = "raised"]
               ELSE [loop EXCEPT !.needs_redraw = FALSE]
    /\ UNCHANGED <<context, config, disk, session, ret, input>>

\* UIController.stop, called from outside the loop
Stop ==
    /\ loop.pc = "run"
    /\ loop.running
    /\ loop' = [loop EXCEPT !.running = FALSE]
    /\ UNCHANGED <<context, config, disk, session, ret, input>>

\* the loop ends and the entry point returns
Return ==
    /\ loop.pc = "run"
    /\ ~loop_continues(loop.running, context)
    /\ loop' = [loop EXCEPT !.pc = "returned"]
    /\ ret' = IF session.kind = "selection"
              THEN run_ui_selection_result(session.styles, context)
              ELSE [message |-> run_chat_ui_result(context)]
    /\ UNCHANGED <<context, config, disk, session, input>>

InitLoop == loop = [pc |-> "run", running |-> TRUE, needs_redraw |-> TRUE]

FreeInput == [script |-> None, plan |-> None, edits |-> 0]

Style(name, content) == [key |-> name, val |-> [role |-> "system", content |-> content]]

\* the STYLES dicts commentator_styles.py may hold when the program starts
InitialStyles ==
    { <<>>,
      <<Style(<<"a">>, <<"x">>)>>,
      <<Style(<<"a">>, <<"x">>), Style(<<"b">>, <<"y">>)>>,
      <<Style(<<"b">>, <<"y">>), Style(<<"a">>, <<"x">>)>> }

\* AppConfig as main() loads it: config.py defaults, interval i
AppConfig(i) ==
    [interval_seconds |-> i, silent_mode |-> FALSE, disable_cache |-> FALSE,
     strict_interval |-> FALSE, screenshot_width |-> 1000, screenshot_height |-> 1080,
     screenshot_monitor_index |-> 1]

\* the default interval and one saved by an earlier run
InitialIntervals == {15, 30}

\* main() starts a selection session over one of the dicts of styleSets
InitSelection(styleSets, loadeds, intervals) ==
    /\ config \in {AppConfig(i) : i \in intervals}
    /\ \E styles \in styleSets, loaded \in loadeds :
          /\ disk = [styles |-> styles, favorites |-> <<>>, syntax_error |-> FALSE,
                     lines |-> styles_text_lines(styles),
                     exports_dir |-> FALSE, export |-> None, module_loaded |-> loaded]
          /\ session = [kind |-> "selection", styles |-> menu_styles(list_styles(disk))]
    /\ context = selection_context(session.styles, config)
    /\ InitLoop
    /\ ret = None

\* the typing bounds: a key that would grow a buffer or the STYLES dict past its bound is not drawn
WithinBounds(key) ==
    /\ context.state = NUMBER_INPUT /\ context.number_input_data # None /\ is_digit(key) =>
          Len(context.number_input_data.current_value) < MaxDigits
    /\ context.state = TEXT_INPUT /\ context.text_input_data # None /\ is_printable(key) =>
          Len(context.text_input_data.current_value) < MaxText
    /\ context.state = STYLE_MANAGER /\ context.style_manager_data # None /\ is_copy(key) =>
          Len(context.style_manager_data.styles) < MaxStyles
    /\ context.state = STYLE_EDITOR /\ context.style_editor_data # None
       /\ (is_printable(key) \/ key = " " \/ is_enter(key)) =>
          IF context.style_editor_data.is_editing_name
          THEN is_printable(key) => Len(context.style_editor_data.style_name) < MaxNameLen
          ELSE Len(context.style_editor_data.content) < MaxContentLen

\* a write succeeds or fails; a handler that touches no file sees neither
WriteOutcomes == {io \in IOs : io.read}
NoOutcomes == {IOOk}

\* the outcomes of the persistence calls the handler of state st makes for key:
\* import reads and writes, save, copy, star, export and confirmed delete write
IOsOf(st, key) ==
    IF st = STYLE_MANAGER /\ is_import(key) THEN IOs
    ELSE IF \/ st = STYLE_MANAGER /\ (is_copy(key) \/ is_favorite(key) \/ is_export(key))
            \/ st = STYLE_EDITOR /\ (is_enter(key) \/ key = ESC_KEY)
            \/ st = CONFIRMATION /\ key_lower(key) = "y"
         THEN WriteOutcomes
    ELSE NoOutcomes

\* a key from keys arrives while the screen of state st is active; at most
\* MaxEdits keys of a session change a config attribute or a file
KeyIn(st, keys) ==
    /\ context.state = st
    /\ input.script = None
    /\ \E key \in keys : \E io \in IOsOf(st, key) :
          /\ WithinBounds(key)
          /\ Deliver(key, io)
          /\ IF config' # config \/ disk' # disk
             THEN input.edits < MaxEdits /\ input' = [input EXCEPT !.edits = @ + 1]
             ELSE input' = input

EditKeys == {"e", "E", "U+0443", "U+0423"}
\* keys drawn on each screen: one key for every branch of the handler, and one it ignores
SelectionKeys == {"\\xe0H", "\\xe0P", "\r", "q", ESC_KEY, "9", "1", "z"}
SettingsKeys == {"\\xe0H", "\\xe0P", "\r", "q", ESC_KEY, "z"}
NumberKeys == {"2", BACKSPACE_KEY, ESC_KEY, "\r", "z"}

----------------------------------------------------------------------------
(* Spec: a selection session in which the user works with the settings     *)
(* screen and the interval prompt                                          *)

Init ==
    /\ InitSelection({<<Style(<<"a">>, <<"x">>), Style(<<"b">>, <<"y">>)>>}, {FALSE},
                     InitialIntervals)
    /\ input = FreeInput

KeyStyleSelection == KeyIn(STYLE_SELECTION, SelectionKeys)
KeySettings == KeyIn(SETTINGS, SettingsKeys)
KeyNumberInput == KeyIn(NUMBER_INPUT, NumberKeys)

Next ==
    \/ KeyStyleSelection
    \/ KeySettings
    \/ KeyNumberInput
    \/ NoEvent
    \/ Return

Spec == Init /\ [][Next]_vars

\* the same session when another thread may call stop()
NextStop == Next \/ Stop

SpecStop == Init /\ [][NextStop]_vars

----------------------------------------------------------------------------
(* SpecStyles: a selection session in which the user works with the style  *)
(* manager, the editor and the interval prompt                             *)

InitStyles ==
    /\ InitSelection({<<>>, <<Style(<<"a">>, <<"x">>), Style(<<"b">>, <<"y">>)>>}, BOOLEAN, {15})
    /\ input = FreeInput

StylesSelectionKeys == (SelectionKeys \ {"9", ESC_KEY}) \cup EditKeys
StylesKeySelection == KeyIn(STYLE_SELECTION, StylesSelectionKeys)
StylesNumberKeys == {ESC_KEY, "\r"}
StylesKeyNumberInput == KeyIn(NUMBER_INPUT, StylesNumberKeys)
StylesManagerKeys == {"\\xe0H", "\\xe0P", "a", "e", "d", ESC_KEY, "z"}
StylesKeyManager == KeyIn(STYLE_MANAGER, StylesManagerKeys)
StylesEditorKeys == {"\t", "\r", ESC_KEY, BACKSPACE_KEY, "a"}
StylesKeyEditor == KeyIn(STYLE_EDITOR, StylesEditorKeys)
StylesConfirmationKeys == {"y", "n", "z"}
StylesKeyConfirmation == KeyIn(CONFIRMATION, StylesConfirmationKeys)

\* the user types without a pause: every iteration of the loop finds a key
NextStyles ==
    \/ StylesKeySelection
    \/ StylesKeyNumberInput
    \/ StylesKeyManager
    \/ StylesKeyEditor
    \/ StylesKeyConfirmation
    \/ Return

SpecStyles == InitStyles /\ [][NextStyles]_vars

----------------------------------------------------------------------------
(* SpecNav: a selection session in which the user moves the highlight in   *)
(* the three list screens                                                  *)

InitNav ==
    /\ InitSelection(InitialStyles, BOOLEAN, {15})
    /\ input = FreeInput

NavSelectionKeys == UP_KEYS \cup DOWN_KEYS \cup {"9", "e", "q"}
NavKeySelection == KeyIn(STYLE_SELECTION, NavSelectionKeys)
NavSettingsKeys == UP_KEYS \cup DOWN_KEYS \cup {ESC_KEY}
NavKeySettings == KeyIn(SETTINGS, NavSettingsKeys)
NavManagerKeys == UP_KEYS \cup DOWN_KEYS \cup {"s", ESC_KEY}
NavKeyManager == KeyIn(STYLE_MANAGER, NavManagerKeys)

NextNav ==
    \/ NavKeySelection
    \/ NavKeySettings
    \/ NavKeyManager
    \/ NoEvent
    \/ Return

SpecNav == InitNav /\ [][NextNav]_vars

----------------------------------------------------------------------------
(* SpecChat: a chat session (run_chat_ui)                                  *)

InitChat ==
    /\ config = AppConfig(15)
    /\ disk = [styles |-> <<>>, favorites |-> <<>>, syntax_error |-> FALSE,
               lines |-> styles_text_lines(<<>>),
               exports_dir |-> FALSE, export |-> None, module_loaded |-> FALSE]
    /\ session = [kind |-> "chat", styles |-> <<>>]
    /\ context = transition_to_chat(UIContext)
    /\ InitLoop
    /\ ret = None
    /\ input = FreeInput

TextKeys ==
    {"a", "b", "@", " ", "\t", BACKSPACE_KEY, ESC_KEY, "\\xe0K", "\\xe0M"} \cup ENTER_KEYS

KeyTextInput == KeyIn(TEXT_INPUT, TextKeys)

NextChat ==
    \/ KeyTextInput
    \/ NoEvent
    \/ Return

SpecChat == InitChat /\ [][NextChat]_vars

----------------------------------------------------------------------------
(* SpecNumber: the number prompt over NumberInputData records with and     *)
(* without bounds, entered from StyleSelection or from Settings            *)

InitNumber ==
    /\ config = AppConfig(15)
    /\ disk = [styles |-> <<Style(<<"a">>, <<"x">>)>>, favorites |-> <<>>,
               syntax_error |-> FALSE,
               lines |-> styles_text_lines(<<Style(<<"a">>, <<"x">>)>>),
               exports_dir |-> FALSE, export |-> None, module_loaded |-> FALSE]
    /\ session = [kind |-> "selection", styles |-> menu_styles(list_styles(disk))]
    /\ \E default \in {2, 15}, lo \in {None, Some(3)}, hi \in {None, Some(20)},
          target \in {None, Some("screenshot_width")} :
          LET c0 == selection_context(session.styles, config)
              c1 == IF target = None
                    THEN [c0 EXCEPT !.selected_style = get_selected_item(c0.selection_data)]
                    ELSE [c0 EXCEPT !.state = SETTINGS]
              w1 == transition_to_number_input([ctx |-> c1, cfg |-> config, disk |-> disk],
                                               default, target)
          IN  context = [w1.ctx EXCEPT !.number_input_data.min_value = lo,
                                       !.number_input_data.max_value = hi]
    /\ InitLoop
    /\ ret = None
    /\ input = FreeInput

PromptKeys == {"0", "2", "9", BACKSPACE_KEY, ESC_KEY} \cup ENTER_KEYS
KeyPrompt == KeyIn(NUMBER_INPUT, PromptKeys)

NextNumber ==
    \/ KeyPrompt
    \/ Return

SpecNumber == InitNumber /\ [][NextNumber]_vars

----------------------------------------------------------------------------
(* SpecScenario: a selection session in which the user types the key       *)
(* sequence 'k times Down, Enter, digits d, Enter'                         *)

DigitStrings == UNION {[1..m -> {"0", "1", "2"}] : m \in 1..MaxDigits}

InitScenario ==
    /\ InitSelection(InitialStyles \ {<<>>}, {FALSE}, InitialIntervals)
    /\ \E k \in 0..MaxDown, d \in DigitStrings, down \in DOWN_KEYS, enter \in ENTER_KEYS :
          input = [script |-> Some([i \in 1..k |-> down] \o <<enter>> \o d \o <<enter>>),
                   plan |-> [downs |-> k, digits |-> d],
                   edits |-> 0]

\* the next key of the script arrives
ScriptKey ==
    /\ input.script # None
    /\ input.script.val # <<>>
    /\ Deliver(Head(input.script.val), IOOk)
    /\ input' = [input EXCEPT !.script = Some(Tail(input.script.val))]

NextScenario ==
    \/ ScriptKey
    \/ NoEvent
    \/ Return

\* the loop polls without end, so a key waiting in the console is delivered
SpecScenario == InitScenario /\ [][NextScenario]_vars /\ WF_vars(ScriptKey)

----------------------------------------------------------------------------
(* SpecEditor: a selection session in which the user opens the style       *)
(* manager and edits a new or an existing style                            *)

\* the user opens the style manager from the selection screen
OpenKeys == {"e"}
OpenManager == KeyIn(STYLE_SELECTION, OpenKeys)
EditorManagerKeys == {"a", "e"}
EditorKeyManager == KeyIn(STYLE_MANAGER, EditorManagerKeys)
EditorEditorKeys == {"a", " ", "\t", "\r", BACKSPACE_KEY, "\\xe0K", "\\xe0M"}
EditorKeyEditor == KeyIn(STYLE_EDITOR, EditorEditorKeys)

NextEditor ==
    \/ OpenManager
    \/ EditorKeyManager
    \/ EditorKeyEditor

SpecEditor ==
    /\ InitSelection({<<Style(<<"a">>, <<"x">>)>>}, {TRUE}, {15})
    /\ input = FreeInput
    /\ [][NextEditor]_vars

----------------------------------------------------------------------------
(* SpecSave: a selection session in which the user opens the style manager *)
(* and edits and saves the existing styles; the content may hold double    *)
(* quotes                                                                  *)

SaveManagerKeys == {"e"}
SaveKeyManager == KeyIn(STYLE_MANAGER, SaveManagerKeys)
SaveEditorKeys == {"a", "\"", "\t", "\r", BACKSPACE_KEY, ESC_KEY}
SaveKeyEditor == KeyIn(STYLE_EDITOR, SaveEditorKeys)

NextSave ==
    \/ OpenManager
    \/ SaveKeyManager
    \/ SaveKeyEditor

SpecSave ==
    /\ InitSelection({<<Style(<<"a">>, <<"x">>)>>}, {TRUE}, {15})
    /\ input = FreeInput
    /\ [][NextSave]_vars

----------------------------------------------------------------------------
(* SpecLibrary: a selection session in which the user opens the style      *)
(* manager and stars, sorts, copies and deletes styles                     *)

\* STYLES dicts of earlier sessions: one with a copy in it, and one whose
\* style b has a content that ends in a double quote
LibraryStyles ==
    { <<Style(<<"a">>, <<"x">>), Style(<<"b">>, <<"y">>)>>,
      <<Style(<<"a">>, <<"x">>), Style(<<"a", "_", "c", "o", "p", "y">>, <<"y">>)>>,
      <<Style(<<"a">>, <<"x">>), Style(<<"b">>, <<"y", "\"">>)>> }

LibraryManagerKeys == {"\\xe0H", "\\xe0P", "f", "s", "c", "d", "z"}
LibraryKeyManager == KeyIn(STYLE_MANAGER, LibraryManagerKeys)
LibraryConfirmationKeys == {"y", "Y", "n", ESC_KEY, "z"}
LibraryKeyConfirmation == KeyIn(CONFIRMATION, LibraryConfirmationKeys)

NextLibrary ==
    \/ OpenManager
    \/ LibraryKeyManager
    \/ LibraryKeyConfirmation

SpecLibrary ==
    /\ InitSelection(LibraryStyles, {TRUE}, {15})
    /\ input = FreeInput
    /\ [][NextLibrary]_vars

----------------------------------------------------------------------------
(* SpecExchange: a selection session in which the user opens the style     *)
(* manager and exports, imports, copies, stars and deletes styles, with an *)
(* export file of an earlier session or of another machine in exports/     *)

\* the "styles" of the newest file of exports/: none, one that shares the name
\* a with STYLES, one whose content ends in a double quote, and an empty one
ExportFiles ==
    { None,
      Some(<<Style(<<"a">>, <<"z">>), Style(<<"c">>, <<"w">>)>>),
      Some(<<Style(<<"c">>, <<"w", "\"">>)>>),
      Some(<<>>) }

InitExchange ==
    /\ config = AppConfig(15)
    /\ \E export \in ExportFiles, favorites \in {<<>>, <<<<"b">>>>} :
          LET styles == <<Style(<<"a">>, <<"x">>), Style(<<"b">>, <<"y">>)>>
          IN  disk = [styles |-> styles, favorites |-> favorites, syntax_error |-> FALSE,
                      lines |-> styles_text_lines(styles),
                      exports_dir |-> export # None, export |-> export,
                      module_loaded |-> TRUE]
    /\ session = [kind |-> "selection", styles |-> menu_styles(list_styles(disk))]
    /\ context = selection_context(session.styles, config)
    /\ InitLoop
    /\ ret = None
    /\ input = FreeInput

ExchangeManagerKeys == {"\\xe0P", "x", "i", "c", "f", "d", "z"}
ExchangeKeyManager == KeyIn(STYLE_MANAGER, ExchangeManagerKeys)
ExchangeConfirmationKeys == {"y", "n"}
ExchangeKeyConfirmation == KeyIn(CONFIRMATION, ExchangeConfirmationKeys)

NextExchange ==
    \/ OpenManager
    \/ ExchangeKeyManager
    \/ ExchangeKeyConfirmation

SpecExchange == InitExchange /\ [][NextExchange]_vars

----------------------------------------------------------------------------
(* SpecToggle: a caller that holds a favourites list, calls                *)
(* toggle_favorite(n, L) and hands the list returned to a second call with *)
(* the same name.  session holds L and n, input the list object passed to  *)
(* the last call as it was before and as it is after the call, ret the     *)
(* list returned.                                                          *)

FavoriteNames == {<<"a">>, <<"b">>, <<"c">>}
FavoriteLists == UNION {[1..m -> FavoriteNames] : m \in 0..MaxFavorites}

EmptyDisk ==
    [styles |-> <<>>, favorites |-> <<>>, syntax_error |-> FALSE,
     lines |-> styles_text_lines(<<>>),
     exports_dir |-> FALSE, export |-> None, module_loaded |-> FALSE]

InitToggle ==
    /\ \E L \in FavoriteLists, n \in FavoriteNames :
          session = [kind |-> "toggle_favorite", favorites |-> L, style_name |-> n]
    /\ input = [calls |-> 0, passed |-> None, passed_after |-> None]
    /\ ret = None
    /\ config = AppConfig(15)
    /\ disk = EmptyDisk
    /\ context = UIContext
    /\ loop = [pc |-> "call", running |-> FALSE, needs_redraw |-> FALSE]

CallToggleFavorite ==
    LET favorites == IF ret = None THEN session.favorites ELSE ret.val
        call == toggle_favorite_call(session.style_name, favorites)
    IN  /\ session.kind = "toggle_favorite"
        /\ input.calls < 2
        /\ input' = [calls |-> input.calls + 1, passed |-> Some(favorites),
                     passed_after |-> Some(call.favorites)]
        /\ ret' = Some(call.returns)
        /\ UNCHANGED <<context, config, disk, loop, session>>

SpecToggle == InitToggle /\ [][CallToggleFavorite]_vars

----------------------------------------------------------------------------
(* SpecPersist: a caller that saves a mapping with save_styles, loads it   *)
(* back with load_styles and saves what it loaded again.  session holds    *)
(* the mapping m, input the position of the caller (pc), the mapping       *)
(* handed to the last save_styles and what that call returned, ret the     *)
(* mapping the last load_styles returned.                                  *)

ContentChars == {"x", "\"", "\\", "{", "}", " "}
Contents == UNION {[1..m -> ContentChars] : m \in 1..MaxContentLen}

\* the mappings handed to save_styles: none, one and two styles
Mappings ==
    {<<>>}
    \cup {<<Style(<<"a">>, c)>> : c \in Contents}
    \cup {<<Style(<<"a">>, c), Style(<<"b">>, e)>> : c \in Contents, e \in Contents}

\* commentator_styles.py as an earlier save_styles wrote it for the mapping styles
FileOf(styles) == [EmptyDisk EXCEPT !.styles = styles, !.lines = styles_text_lines(styles)]

InitPersist ==
    /\ \E m \in Mappings : session = [kind |-> "round_trip", styles |-> m]
    /\ \E before \in {<<>>, <<Style(<<"a">>, <<"x">>)>>, <<Style(<<"a">>, <<"}">>)>>,
                       <<Style(<<"a">>, <<"{">>)>>} :
          disk = FileOf(before)
    /\ input = [pc |-> "save", rounds |-> 0, saved |-> session.styles, returned |-> FALSE]
    /\ ret = None
    /\ config = AppConfig(15)
    /\ context = UIContext
    /\ loop = [pc |-> "call", running |-> FALSE, needs_redraw |-> FALSE]

\* success = save_styles(styles): the file can or cannot be rewritten
CallSaveStyles ==
    /\ session.kind = "round_trip"
    /\ input.pc = "save"
    /\ input.rounds < MaxRounds
    /\ \E ok \in BOOLEAN :
          /\ disk' = save_styles(disk, input.saved, ok)
          /\ input' = [input EXCEPT !.pc = "load", !.returned = save_styles_ok(disk, ok)]
    /\ UNCHANGED <<context, config, loop, session, ret>>

\* reloaded = load_styles(), which the caller saves next
CallLoadStyles ==
    /\ session.kind = "round_trip"
    /\ input.pc = "load"
    /\ ret' = Some(load_styles(disk))
    /\ input' = [input EXCEPT !.pc = "loaded"]
    /\ UNCHANGED <<context, config, disk, loop, session>>

NextRound ==
    /\ session.kind = "round_trip"
    /\ input.pc = "loaded"
    /\ input' = [input EXCEPT !.pc = "save", !.rounds = @ + 1, !.saved = ret.val]
    /\ UNCHANGED <<context, config, disk, loop, session, ret>>

NextPersist ==
    \/ CallSaveStyles
    \/ CallLoadStyles
    \/ NextRound

SpecPersist == InitPersist /\ [][NextPersist]_vars

----------------------------------------------------------------------------
(* SpecValidate: a caller of validate_style(name, content).  session holds *)
(* the arguments, ret the value returned ("" for None).                    *)

NameChars == {"a", "Z", "1", "U+0444", "_", "-", "@", " "}
ValidateNames == UNION {[1..m -> NameChars] : m \in 0..MaxArgLen}
ValidateContents == UNION {[1..m -> {"x", " ", "\n"}] : m \in 0..MaxArgLen}

InitValidate ==
    /\ \E name \in ValidateNames, content \in ValidateContents :
          session = [kind |-> "validate_style", name |-> name, content |-> content]
    /\ input = [calls |-> 0]
    /\ ret = None
    /\ config = AppConfig(15)
    /\ disk = EmptyDisk
    /\ context = UIContext
    /\ loop = [pc |-> "call", running |-> FALSE, needs_redraw |-> FALSE]

CallValidateStyle ==
    /\ session.kind = "validate_style"
    /\ input.calls = 0
    /\ ret' = Some(validate_style(session.name, session.content))
    /\ input' = [calls |-> 1]
    /\ UNCHANGED <<context, config, disk, loop, session>>

SpecValidate == InitValidate /\ [][CallValidateStyle]_vars

----------------------------------------------------------------------------
(* SpecMissing: a caller sets UIController.context.state to a non-terminal *)
(* state without the data record of that state (the records of the other  *)
(* screens may be there) and calls run()                                   *)

NonTerminalStates ==
    {STYLE_SELECTION, SETTINGS, NUMBER_INPUT, STYLE_MANAGER, STYLE_EDITOR, CONFIRMATION,
     TEXT_INPUT}

\* the UIContext attribute that holds the data record of the screen of state st
DataField(st) ==
    CASE st = STYLE_SELECTION -> "selection_data"
      [] st = SETTINGS -> "settings_data"
      [] st = NUMBER_INPUT -> "number_input_data"
      [] st = STYLE_MANAGER -> "style_manager_data"
      [] st = STYLE_EDITOR -> "style_editor_data"
      [] st = CONFIRMATION -> "confirmation_data"
      [] st = TEXT_INPUT -> "text_input_data"

\* a context in which every screen has its data record
FullContext ==
    LET styles == <<Style(<<"a">>, <<"x">>)>>
        w0 == [ctx |-> selection_context(menu_styles(DictKeys(styles)), AppConfig(15)),
               cfg |-> AppConfig(15), disk |-> FileOf(styles)]
        w1 == enter_style_editor(enter_style_manager(w0), TRUE, <<>>)
        w2 == transition_to_number_input(show_delete_confirmation(w1, <<"a">>), 15, None)
    IN  transition_to_chat(w2.ctx)

InitMissing ==
    /\ \E st \in NonTerminalStates :
       \E present \in SUBSET ({DataField(s) : s \in NonTerminalStates} \ {DataField(st)}) :
          context = [f \in DOMAIN FullContext |->
                        IF f = "state" THEN st
                        ELSE IF f \in {DataField(s) : s \in NonTerminalStates} \ present
                             THEN None
                        ELSE FullContext[f]]
    /\ config = AppConfig(15)
    /\ disk = FileOf(<<Style(<<"a">>, <<"x">>)>>)
    /\ session = [kind |-> "selection", styles |-> menu_styles(list_styles(disk))]
    /\ InitLoop
    /\ ret = None
    /\ input = FreeInput

MissingKeys ==
    {"\\xe0H", "\\xe0P", "\r", "\t", " ", "1", "9", "a", "c", "d", "e", "f", "i", "n",
     "q", "s", "x", "y", ESC_KEY, BACKSPACE_KEY}

MissingKey == KeyIn(context.state, MissingKeys)

NextMissing ==
    \/ MissingKey
    \/ NoEvent
    \/ Stop
    \/ Return

SpecMissing == InitMissing /\ [][NextMissing]_vars

----------------------------------------------------------------------------
(* SpecDetector: the capture loop of main() as far as it uses the          *)
(* ChangeDetector: it hashes a screenshot and calls decide_change, stores  *)
(* a comment with cache_set, and time passes.  session holds the detector, *)
(* config the hashing attributes of AppConfig, input the clock and the     *)
(* hash handed to the last decide_change, ret the decision returned.       *)

HashingConfigs ==
    [hash_threshold : {0, 2, 7}, only_on_change : BOOLEAN, stable_window_seconds : {1},
     cache_ttl_seconds : {1}, disable_cache : BOOLEAN]

InitDetector ==
    /\ session = [kind |-> "capture", detector |-> ChangeDetector]
    /\ config \in HashingConfigs
    /\ input = [now_m |-> 0, called |-> None]
    /\ ret = None
    /\ disk = EmptyDisk
    /\ context = UIContext
    /\ loop = [pc |-> "call", running |-> FALSE, needs_redraw |-> FALSE]

\* decision = DETECTOR.decide_change(h, config); h is None when hashing failed;
\* input.called keeps the hash of the latest "call" decision
CallDecideChange(curr_hash) ==
    LET call == decide_change(session.detector, curr_hash, config, input.now_m) IN
    /\ session.kind = "capture"
    /\ session' = [session EXCEPT !.detector = call.self]
    /\ ret' = Some(call.returns)
    /\ input' = IF call.returns = "call" THEN [input EXCEPT !.called = curr_hash] ELSE input
    /\ UNCHANGED <<context, config, disk, loop>>

DecideChange == \E h \in ImageHashes : CallDecideChange(Some(h))
DecideChangeNoHash == CallDecideChange(None)

\* the comments the API returns: an empty one and a text
Comments == {"", "comment"}

\* DETECTOR.cache_set(comment, config.cache_ttl_seconds, config.disable_cache)
CallCacheSet ==
    /\ session.kind = "capture"
    /\ \E comment \in Comments :
          session' = [session EXCEPT !.detector =
                         cache_set(@, comment, config.cache_ttl_seconds,
                                   config.disable_cache, input.now_m)]
    /\ UNCHANGED <<context, config, disk, loop, ret, input>>

Tick ==
    /\ session.kind = "capture"
    /\ input.now_m < MaxClock
    /\ input' = [input EXCEPT !.now_m = @ + 1]
    /\ UNCHANGED <<context, config, disk, loop, session, ret>>

NextDetector ==
    \/ DecideChange
    \/ DecideChangeNoHash
    \/ CallCacheSet
    \/ Tick

SpecDetector == InitDetector /\ [][NextDetector]_vars

----------------------------------------------------------------------------
(* SpecFrames: the while loop of run statement by statement: the render of  *)
(* an iteration, then its poll; input remembers what the iteration did     *)

\* C32 variant: a loop that asks for a redraw after every poll
redraw_after_poll_always(needs_redraw, event) == TRUE

\* needs_redraw after `if event: self._handle_event(event); needs_redraw = True`
redraw_after_poll(needs_redraw, event) == IF event THEN TRUE ELSE needs_redraw

\* first: no iteration has ended yet; handled: the events the previous
\* iteration handled; events: the events this iteration handled so far;
\* shown: what this iteration's render showed, None when it did not render
FrameInput ==
    [script |-> None, plan |-> None, edits |-> 0,
     first |-> TRUE, handled |-> 0, events |-> 0, shown |-> None]

InitFrames ==
    /\ InitSelection({<<Style(<<"a">>, <<"x">>)>>}, {FALSE}, {15})
    /\ input = FrameInput

\* the head of an iteration: `if needs_redraw:` render and clear the flag
RenderFrame ==
    /\ AtLoopHead
    /\ IF RenderRaises
       THEN loop' = [loop EXCEPT !.pc = "raised"] /\ input' = input
       ELSE /\ loop' = [loop EXCEPT !.pc = "poll", !.needs_redraw = FALSE]
            /\ input' = [input EXCEPT
                            !.shown = IF loop.needs_redraw
                                      THEN Some(render_current_screen(context))
                                      ELSE None,
                            !.handled = input.events,
                            !.events = 0]
    /\ UNCHANGED <<context, config, disk, session, ret>>

\* get_event returned a key of keys on the screen of state st: the handler runs
FrameKey(st, keys) ==
    /\ loop.pc = "poll"
    /\ context.state = st
    /\ \E key \in keys : \E io \in IOsOf(st, key) :
          LET w2 == handle_keyboard(W, key, io) IN
          /\ WithinBounds(key)
          /\ context' = w2.ctx
          /\ config' = w2.cfg
          /\ disk' = w2.disk
          /\ IF w2.cfg # config \/ w2.disk # disk
             THEN input.edits < MaxEdits
                  /\ input' = [input EXCEPT !.edits = @ + 1, !.events = @ + 1,
                                            !.first = FALSE]
             ELSE input' = [input EXCEPT !.events = @ + 1, !.first = FALSE]
    /\ loop' = [loop EXCEPT !.pc = "run",
                            !.needs_redraw = redraw_after_poll(loop.needs_redraw, TRUE)]
    /\ UNCHANGED <<session, ret>>

\* get_event returned None
FrameNoEvent ==
    /\ loop.pc = "poll"
    /\ loop' = [loop EXCEPT !.pc = "run",
                            !.needs_redraw = redraw_after_poll(loop.needs_redraw, FALSE)]
    /\ input' = [input EXCEPT !.first = FALSE]
    /\ UNCHANGED <<context, config, disk, session, ret>>

FrameSelectionKeys == {"\\xe0P", "\r", "q", "9", "z"}
FrameSettingsKeys == {"\\xe0P", "\r", ESC_KEY, "z"}
FrameNumberKeys == {"2", BACKSPACE_KEY, ESC_KEY, "\r"}

FrameKeySelection == FrameKey(STYLE_SELECTION, FrameSelectionKeys)
FrameKeySettings == FrameKey(SETTINGS, FrameSettingsKeys)
FrameKeyNumberInput == FrameKey(NUMBER_INPUT, FrameNumberKeys)

NextFrames ==
    \/ RenderFrame
    \/ FrameKeySelection
    \/ FrameKeySettings
    \/ FrameKeyNumberInput
    \/ FrameNoEvent
    \/ Return

SpecFrames == InitFrames /\ [][NextFrames]_vars

----------------------------------------------------------------------------
(* SpecEmpty: a selection session over an empty STYLES dict in which the   *)
(* user opens the style manager and fills it by adding or importing        *)

InitEmpty ==
    /\ config = AppConfig(15)
    /\ \E export \in ExportFiles :
          disk = [styles |-> <<>>, favorites |-> <<>>, syntax_error |-> FALSE,
                  lines |-> styles_text_lines(<<>>),
                  exports_dir |-> export # None, export |-> export,
                  module_loaded |-> TRUE]
    /\ session = [kind |-> "selection", styles |-> menu_styles(list_styles(disk))]
    /\ context = selection_context(session.styles, config)
    /\ InitLoop
    /\ ret = None
    /\ input = FreeInput

EmptyManagerKeys == {"\\xe0H", "\\xe0P", "a", "e", "c", "f", "s", "d", "i"}
EmptyKeyManager == KeyIn(STYLE_MANAGER, EmptyManagerKeys)
EmptyEditorKeys == {"a", "\t", "\r"}
EmptyKeyEditor == KeyIn(STYLE_EDITOR, EmptyEditorKeys)
EmptyConfirmationKeys == {"y", "n"}
EmptyKeyConfirmation == KeyIn(CONFIRMATION, EmptyConfirmationKeys)

NextEmpty ==
    \/ OpenManager
    \/ EmptyKeyManager
    \/ EmptyKeyEditor
    \/ EmptyKeyConfirmation

SpecEmpty == InitEmpty /\ [][NextEmpty]_vars

----------------------------------------------------------------------------
(* SpecBraces: a selection session in which the user opens the style       *)
(* manager, edits the content of the style with braces and saves, and      *)
(* leaves the screens again with Esc                                       *)

BracesSelectionKeys == {"e", ESC_KEY}
BracesKeySelection == KeyIn(STYLE_SELECTION, BracesSelectionKeys)
BracesManagerKeys == {"e", "a", "d", ESC_KEY}
BracesKeyManager == KeyIn(STYLE_MANAGER, BracesManagerKeys)
BracesEditorKeys == {"{", "a", " ", "\t", "\r", BACKSPACE_KEY, ESC_KEY, "\\xe0K"}
BracesKeyEditor == KeyIn(STYLE_EDITOR, BracesEditorKeys)
BracesConfirmationKeys == {"n", "z"}
BracesKeyConfirmation == KeyIn(CONFIRMATION, BracesConfirmationKeys)

NextBraces ==
    \/ BracesKeySelection
    \/ BracesKeyManager
    \/ BracesKeyEditor
    \/ BracesKeyConfirmation

SpecBraces ==
    /\ InitSelection({<<Style(<<"a">>, <<"x">>)>>}, {TRUE}, {15})
    /\ input = FreeInput
    /\ [][NextBraces]_vars

----------------------------------------------------------------------------
(* SpecFavorites: a selection session over two styles, one or both of them *)
(* starred in an earlier session, in which the user opens the style        *)
(* manager and deletes, renames and stars styles                           *)

StarredBefore == {<<<<"a">>>>, <<<<"a">>, <<"b">>>>}

InitFavorites ==
    /\ config = AppConfig(15)
    /\ \E favorites \in StarredBefore :
          LET styles == <<Style(<<"a">>, <<"x">>), Style(<<"b">>, <<"y">>)>>
          IN  disk = [styles |-> styles, favorites |-> favorites, syntax_error |-> FALSE,
                      lines |-> styles_text_lines(styles),
                      exports_dir |-> FALSE, export |-> None, module_loaded |-> TRUE]
    /\ session = [kind |-> "selection", styles |-> menu_styles(list_styles(disk))]
    /\ context = selection_context(session.styles, config)
    /\ InitLoop
    /\ ret = None
    /\ input = FreeInput

FavoritesManagerKeys == {"\\xe0H", "\\xe0P", "d", "e", "f"}
FavoritesKeyManager == KeyIn(STYLE_MANAGER, FavoritesManagerKeys)
FavoritesEditorKeys == {"c", BACKSPACE_KEY, "\r", "\t"}
FavoritesKeyEditor == KeyIn(STYLE_EDITOR, FavoritesEditorKeys)
FavoritesConfirmationKeys == {"y", "n"}
FavoritesKeyConfirmation == KeyIn(CONFIRMATION, FavoritesConfirmationKeys)

NextFavorites ==
    \/ OpenManager
    \/ FavoritesKeyManager
    \/ FavoritesKeyEditor
    \/ FavoritesKeyConfirmation

SpecFavorites == InitFavorites /\ [][NextFavorites]_vars

----------------------------------------------------------------------------
(* Properties *)

\* the key of the highlighted (key, name) item a Confirmed session ended with
SelectedKey == context.selected_style.key

\* C1: when a selection session ends in Confirmed, the internal name
\* run_ui_selection returns is style_key_mapping[key] for the key of the item
\* that was highlighted at Enter, also after the list was reloaded
C1_ReturnsHighlightedStyle ==
    ( /\ loop.pc = "returned"
      /\ context.state = CONFIRMED
      /\ context.selected_style # None
      /\ DictHas(context.style_key_mapping, SelectedKey) )
    => /\ ret.style # None
       /\ ret.style.style = DictGet(context.style_key_mapping, SelectedKey)

PlannedIndex ==
    IF input.plan.downs < Len(context.selection_data.items) - 1
    THEN input.plan.downs
    ELSE Len(context.selection_data.items) - 1

C3_AtPrompt == context.state = NUMBER_INPUT

C3_Done ==
    /\ context.state = CONFIRMED
    /\ context.selected_style = context.selection_data.items[PlannedIndex + 1]
    /\ context.selected_interval = ParseInt(input.plan.digits)

\* C3: with n >= 1 items, the keys 'k times Down, Enter, digits d, Enter' first
\* reach NumberInput with default_value = config.interval_seconds and then end
\* in Confirmed with the item at index min(k, n-1) and the interval int(d)
C3_ScriptedSelection ==
    /\ [](C3_AtPrompt =>
            context.number_input_data.default_value = config.interval_seconds)
    /\ <>C3_AtPrompt
    /\ <>[]C3_Done

\* two Downs on a two-item list, then the digits 02
C3_Witness ==
    /\ C3_Done
    /\ input.plan.downs >= 2
    /\ Len(context.selection_data.items) = 2
    /\ input.plan.digits = <<"0", "2">>
    /\ context.selected_interval = 2

C4_Step ==
    \A key \in ENTER_KEYS :
        ( /\ context.state = NUMBER_INPUT
          /\ Deliver(key, IOOk)
          /\ context'.number_input_data.result # None )
        => LET data == context.number_input_data
               value == context'.number_input_data.result.val
           IN  IF data.target_attr # None
               THEN /\ data.previous_state = SETTINGS
                    /\ config' = [config EXCEPT ![data.target_attr.val] = value]
                    /\ context'.selected_interval = context.selected_interval
                    /\ context'.state = SETTINGS
               ELSE /\ data.previous_state = STYLE_SELECTION
                    /\ context'.selected_interval = value
                    /\ config' = config
                    /\ context'.state = CONFIRMED

\* C4: a successful confirm with a target attribute writes the value to that
\* config attribute, keeps selected_interval and goes to Settings; without a
\* target attribute it sets selected_interval, keeps the config and goes to
\* Confirmed
C4_ConfirmAppliesByTarget == [][C4_Step]_vars

\* the screenshot height was set to 22 through the prompt
C4_Witness ==
    /\ context.state = SETTINGS
    /\ config.screenshot_height = 22
    /\ context.number_input_data # None
    /\ context.number_input_data.result = Some(22)
    /\ context.selected_interval = config.interval_seconds

C5_Step ==
    \A key \in ENTER_KEYS :
        (context.state = NUMBER_INPUT /\ Deliver(key, IOOk))
        => LET data == context.number_input_data
               candidate == IF data.current_value = <<>> THEN data.default_value
                            ELSE ParseInt(data.current_value)
               inside == /\ (data.min_value # None => candidate >= data.min_value.val)
                         /\ (data.max_value # None => candidate <= data.max_value.val)
           IN  IF inside
               THEN context'.number_input_data.result = Some(candidate)
               ELSE context' = context /\ config' = config

\* C5: Enter in NumberInput tries int(current_value), or default_value when
\* the buffer is empty; outside [min_value, max_value] nothing changes,
\* otherwise result is set to the candidate
C5_ConfirmWithinBounds == [][C5_Step]_vars

\* 09 was accepted as 9 between the bounds 3 and 20
C5_Witness ==
    /\ context.number_input_data # None
    /\ context.number_input_data.current_value = <<"0", "9">>
    /\ context.number_input_data.min_value = Some(3)
    /\ context.number_input_data.max_value = Some(20)
    /\ context.number_input_data.result = Some(9)

C6_Step ==
    /\ (context.state = NUMBER_INPUT /\ Deliver(ESC_KEY, IOOk))
       => LET data == context.number_input_data
          IN  /\ data.previous_state \in {STYLE_SELECTION, SETTINGS}
              /\ context'.state = data.previous_state
              /\ config' = config
              /\ context'.selected_interval = context.selected_interval
              /\ context'.number_input_data.result = None
    /\ (context.state # NUMBER_INPUT /\ context'.state = NUMBER_INPUT)
       => /\ context'.number_input_data.previous_state = context.state
          /\ context'.number_input_data.current_value = <<>>
          /\ context'.number_input_data.result = None

\* C6: Esc in NumberInput goes back to the state the prompt was entered from,
\* changes no config attribute and not selected_interval, leaves result unset,
\* and the next entry into NumberInput starts with an empty current_value
C6_EscDiscards == [][C6_Step]_vars

\* back on the settings screen with a typed 2 that was never confirmed
C6_Witness ==
    /\ context.state = SETTINGS
    /\ context.number_input_data # None
    /\ context.number_input_data.current_value = <<"2">>
    /\ context.number_input_data.result = None

\* C7: selected_interval stays config.interval_seconds until the session is
\* Confirmed, and a Cancelled session returns no style with that interval
C7_CancelKeepsInterval ==
    /\ context.state # CONFIRMED => context.selected_interval = config.interval_seconds
    /\ (loop.pc = "returned" /\ context.state = CANCELLED)
       => ret = [style |-> None, interval |-> config.interval_seconds]

\* cancelled after a setting was changed and a number was typed at the interval prompt
C7_Witness ==
    /\ loop.pc = "returned"
    /\ context.state = CANCELLED
    /\ config.interval_seconds = 30
    /\ config.silent_mode
    /\ context.number_input_data # None
    /\ context.number_input_data.target_attr = None
    /\ context.number_input_data.current_value = <<"2">>

C8_Inv ==
    /\ context.state \in {TEXT_INPUT, CONFIRMED, CANCELLED}
    /\ context.state = CONFIRMED
       => context.user_message = Some(context.text_input_data.current_value)
    /\ context.state # CONFIRMED => context.user_message = None
    /\ loop.pc = "returned"
       => ret = [message |-> IF context.state = CONFIRMED
                             THEN Some(context.text_input_data.current_value)
                             ELSE None]

C8_Step ==
    (context.state = TEXT_INPUT /\ context'.state # TEXT_INPUT)
    => \/ /\ \E key \in ENTER_KEYS : Deliver(key, IOOk)
          /\ context'.state = CONFIRMED
          /\ context'.user_message = Some(context.text_input_data.current_value)
       \/ /\ Deliver(ESC_KEY, IOOk)
          /\ context'.state = CANCELLED

\* C8: a chat session starts in TextInput and leaves it only by Enter, to
\* Confirmed with user_message = the buffer (the value run_chat_ui returns),
\* or by Esc, to Cancelled with user_message unset (run_chat_ui returns None)
C8_ChatEndsByEnterOrEsc == []C8_Inv /\ [][C8_Step]_vars

\* the chat returned the typed message ab
C8_Witness ==
    /\ loop.pc = "returned"
    /\ context.state = CONFIRMED
    /\ ret = [message |-> Some(<<"a", "b">>)]

ListScreens == {STYLE_SELECTION, SETTINGS, STYLE_MANAGER}

\* the length of the list of the active list screen, and its selected_index
NavLen(ctx) ==
    IF ctx.state = STYLE_SELECTION THEN Len(ctx.selection_data.items)
    ELSE IF ctx.state = SETTINGS THEN Len(ctx.settings_data.settings)
    ELSE Len(ctx.style_manager_data.style_names)

NavIndex(ctx) ==
    IF ctx.state = STYLE_SELECTION THEN ctx.selection_data.selected_index
    ELSE IF ctx.state = SETTINGS THEN ctx.settings_data.selected_index
    ELSE ctx.style_manager_data.selected_index

ArrowKeys == UP_KEYS \cup DOWN_KEYS

C9_Step ==
    \A key \in ArrowKeys :
        ( /\ context.state \in ListScreens
          /\ Deliver(key, IOOk)
          /\ NavLen(context) > 0 )
        => LET n == NavLen(context)
               i == NavIndex(context)
               j == NavIndex(context')
           IN  /\ context'.state = context.state
               /\ NavLen(context') = n
               /\ j \in 0..(n - 1)
               /\ i \in 0..(n - 1)
                  => j = IF is_up(key) THEN (IF i = 0 THEN 0 ELSE i - 1)
                         ELSE (IF i = n - 1 THEN n - 1 ELSE i + 1)

\* C9: on a non-empty list, an Up or Down key in StyleSelection, Settings or
\* StyleManager leaves selected_index in [0, len): it moves by one, stays at 0
\* on Up and at the last index on Down, never wraps and never goes negative
C9_UpDownSaturate == [][C9_Step]_vars

\* Down has reached the last of at least two styles in the style manager
C9_Witness ==
    /\ context.state = STYLE_MANAGER
    /\ Len(context.style_manager_data.style_names) >= 2
    /\ context.style_manager_data.selected_index
         = Len(context.style_manager_data.style_names) - 1

\* C10: whenever selection_data.items is non-empty, 0 <= selected_index <
\* len(items), also after a reload and in sessions that started with no items
C10_SelectedIndexInRange ==
    (context.selection_data # None /\ context.selection_data.items # <<>>)
    => context.selection_data.selected_index
         \in 0..(Len(context.selection_data.items) - 1)

C11_Inv ==
    context.text_input_data # None
    => /\ 0 <= context.text_input_data.cursor_position
       /\ context.text_input_data.cursor_position
              <= Len(context.text_input_data.current_value)

C11_Step ==
    (/\ context.state = TEXT_INPUT
     /\ context.text_input_data.cursor_position = 0
     /\ Deliver(BACKSPACE_KEY, IOOk))
    => context'.text_input_data = context.text_input_data

\* C11: after any sequence of insert_char, backspace, move_cursor_left and
\* move_cursor_right on the chat buffer, 0 <= cursor_position <= len(current_value),
\* and backspace at position 0 changes nothing
C11_CursorInBuffer == []C11_Inv /\ [][C11_Step]_vars

\* the cursor was moved left to position 0 of the buffer ab, where Backspace finds nothing to delete
C11_Witness ==
    /\ context.state = TEXT_INPUT
    /\ context.text_input_data.current_value = <<"a", "b">>
    /\ context.text_input_data.cursor_position = 0

\* the keys of the console: the printable characters and the control keys
ConsoleKeys ==
    PrintableChars \cup UP_KEYS \cup DOWN_KEYS \cup LEFT_KEYS \cup RIGHT_KEYS
    \cup ENTER_KEYS \cup {ESC_KEY, BACKSPACE_KEY, "\t"}

\* the console keys the confirmation screen gives no meaning
UnboundConfirmationKeys == ConsoleKeys \ {"y", "Y", "n", "N", ESC_KEY}

\* key arrives in this step, whatever the persistence calls do
Pressed(key) == \E io \in IOsOf(context.state, key) : Deliver(key, io)

\* key arrives in this step and every persistence call succeeds
PressedOk(key) == Deliver(key, IOOk)

\* the field of the style editor that takes the keys
ActiveField(data) == IF data.is_editing_name THEN data.style_name ELSE data.content

C12_Inv ==
    (context.state = STYLE_EDITOR /\ context.style_editor_data # None)
    => /\ 0 <= context.style_editor_data.cursor_position
       /\ context.style_editor_data.cursor_position
              <= Len(ActiveField(context.style_editor_data))

C12_Step ==
    (context.state = STYLE_EDITOR /\ Pressed("\t"))
    => /\ context'.style_editor_data.is_editing_name
              = ~context.style_editor_data.is_editing_name
       /\ context'.style_editor_data.cursor_position
              = Len(ActiveField(context'.style_editor_data))
       /\ context'.style_editor_data.style_name = context.style_editor_data.style_name
       /\ context'.style_editor_data.content = context.style_editor_data.content

\* C12: in StyleEditor, after any sequence of printable characters, space, Enter
\* in the content, Backspace, Left, Right and Tab, on a new or an existing style,
\* 0 <= cursor_position <= len(active field), the active field being style_name
\* while is_editing_name and content otherwise; Tab switches the active field
\* and puts the cursor at the end of the newly active field
C12_EditorCursorInField == []C12_Inv /\ [][C12_Step]_vars

\* Tab took the cursor from the name a of an existing style to the end of
\* its content x, and Left moved it to the start
C12_Witness ==
    /\ context.state = STYLE_EDITOR
    /\ ~context.style_editor_data.is_new
    /\ ~context.style_editor_data.is_editing_name
    /\ context.style_editor_data.style_name = <<"a">>
    /\ context.style_editor_data.content = <<"x">>
    /\ context.style_editor_data.cursor_position = 0

\* the keys that make the style editor attempt a save
SaveKeys(data) == {ESC_KEY} \cup (IF data.is_editing_name THEN ENTER_KEYS ELSE {})

\* a save is attempted in this step
SaveAttempt ==
    /\ context.state = STYLE_EDITOR
    /\ context.style_editor_data # None
    /\ \E key \in SaveKeys(context.style_editor_data) : Pressed(key)

C13_Step ==
    (/\ SaveAttempt
     /\ validate_style(context.style_editor_data.style_name,
                       context.style_editor_data.content) # "")
    => /\ context'.style_editor_data.error_message # ""
       /\ context'.state = STYLE_EDITOR
       /\ context'.style_manager_data.styles = context.style_manager_data.styles
       /\ context'.style_manager_data.style_names = context.style_manager_data.style_names
       /\ disk'.styles = disk.styles

SaveAttemptWritten ==
    /\ context.state = STYLE_EDITOR
    /\ context.style_editor_data # None
    /\ \E key \in SaveKeys(context.style_editor_data) : PressedOk(key)

C14_Step ==
    (/\ SaveAttemptWritten
     /\ validate_style(context.style_editor_data.style_name,
                       context.style_editor_data.content) = "")
    => LET data == context.style_editor_data
           persisted == load_styles(disk')
           manager == context'.style_manager_data
       IN  /\ DictHas(persisted, data.style_name)
           /\ DictGet(persisted, data.style_name).content = data.content
           /\ (~data.is_new /\ data.original_name # data.style_name)
              => ~DictHas(persisted, data.original_name)
           /\ context'.state = STYLE_MANAGER
           /\ PyIndex(manager.style_names, manager.selected_index) = data.style_name

\* C14: when a save attempted from StyleEditor passes validation and
\* save_styles succeeds, the persisted mapping contains style_name with the
\* edited content (and no longer original_name when an existing style was
\* renamed), the state becomes StyleManager, and
\* style_names[selected_index] == style_name
C14_SavePersistsEditedStyle == [][C14_Step]_vars

C15_Step ==
    (/\ context.state = STYLE_EDITOR
     /\ context.style_editor_data # None
     /\ Pressed(" "))
    => LET data == context.style_editor_data
           after == context'.style_editor_data
       IN  IF data.is_editing_name
           THEN /\ after.style_name = data.style_name
                /\ after.cursor_position = data.cursor_position
                /\ after.error_message # ""
           ELSE /\ after.content = SubSeq(data.content, 1, data.cursor_position) \o <<" ">>
                                   \o SubSeq(data.content, data.cursor_position + 1,
                                             Len(data.content))
                /\ after.error_message = ""

\* C15: a space typed while is_editing_name leaves style_name and
\* cursor_position unchanged and sets a non-empty error_message; a space typed
\* while editing the content inserts a literal space at the cursor and clears
\* error_message
C15_SpaceInNameRefused == [][C15_Step]_vars

\* a space went into the content, and a space typed in the name field was refused
C15_Witness ==
    /\ context.state = STYLE_EDITOR
    /\ context.style_editor_data.is_editing_name
    /\ context.style_editor_data.content = <<" ">>
    /\ context.style_editor_data.error_message = "Style names cannot contain spaces"

C16_Step ==
    LET manager == context.style_manager_data
        name == context.confirmation_data.action_name
    IN
    /\ (context.state = STYLE_MANAGER /\ \E key \in ConsoleKeys : is_delete(key) /\ Pressed(key))
       => /\ context'.state \in {CONFIRMATION, STYLE_MANAGER}
          /\ context'.style_manager_data = manager
          /\ disk' = disk
    /\ (context.state = CONFIRMATION /\ (Pressed("n") \/ Pressed("N") \/ Pressed(ESC_KEY)))
       => /\ context'.state = STYLE_MANAGER
          /\ context'.style_manager_data = manager
          /\ DictHas(manager.styles, name)
          /\ disk' = disk
    /\ (context.state = CONFIRMATION /\ (PressedOk("y") \/ PressedOk("Y")))
       => /\ context'.state = STYLE_MANAGER
          /\ context'.style_manager_data.styles = DictDel(manager.styles, name)
          /\ load_styles(disk') = DictDel(load_styles(disk), name)
    /\ (context.state = CONFIRMATION
        /\ \E key \in UnboundConfirmationKeys : Pressed(key))
       => /\ context' = context
          /\ disk' = disk

\* C16: a style is deleted only on the explicit 'y': the delete key only
\* enters Confirmation (styles and persisted mapping unchanged), 'n' or Esc
\* returns to StyleManager with the style still present and nothing persisted,
\* 'y' removes exactly that style from the in-memory and the persisted mapping
\* and returns to StyleManager, and any other key leaves the state in
\* Confirmation with nothing changed
C16_DeleteOnlyOnYes == [][C16_Step]_vars

\* the style the manager highlights
SelectedName(data) == PyIndex(data.style_names, data.selected_index)

C17_Step ==
    (/\ context.state = STYLE_MANAGER
     /\ context.style_manager_data.style_names # <<>>
     /\ PressedOk("f"))
    => LET data == context.style_manager_data
           after == context'.style_manager_data
           s == SelectedName(data)
       IN  /\ (s \in SeqRange(after.favorites)) = (s \notin SeqRange(data.favorites))
           /\ \A n \in SeqRange(data.style_names) \ {s} :
                  (n \in SeqRange(after.favorites)) = (n \in SeqRange(data.favorites))
           /\ load_favorites(disk') = after.favorites
           /\ SelectedName(after) = s

InDirection(names, mode) ==
    \A i, j \in 1..Len(names) :
        i < j => IF mode = "A-Z" THEN StrLess(names[i], names[j])
                 ELSE StrLess(names[j], names[i])

\* favourites come first in style_names and each group is in the direction of sort_mode
FavoritesFirstSorted(data) ==
    LET favs == SelectSeq(data.style_names, LAMBDA n : n \in SeqRange(data.favorites))
        others == SelectSeq(data.style_names, LAMBDA n : n \notin SeqRange(data.favorites))
    IN  /\ data.style_names = favs \o others
        /\ InDirection(favs, data.sort_mode)
        /\ InDirection(others, data.sort_mode)

\* C18: after every style-manager mutation (editor save, copy, confirmed
\* delete, favourite toggle, sort toggle, import) style_names lists all
\* favourites before all non-favourites, and each group is in alphabetical
\* order in the direction of sort_mode
C18_FavoritesFirstSorted ==
    context.style_manager_data # None => FavoritesFirstSorted(context.style_manager_data)

C19_Step ==
    (context.state = STYLE_MANAGER /\ Pressed("s"))
    => LET data == context.style_manager_data
           after == context'.style_manager_data
       IN  /\ after.sort_mode = (IF data.sort_mode = "A-Z" THEN "Z-A" ELSE "A-Z")
           /\ SeqRange(after.style_names) = SeqRange(DictKeys(data.styles))
           /\ Len(after.style_names) = Len(data.styles)
           /\ FavoritesFirstSorted(after)
           /\ (/\ SeqRange(DictKeys(data.styles)) = {<<"a">>, <<"b">>}
               /\ data.favorites = << <<"a">> >>)
              => after.style_names = << <<"a">>, <<"b">> >>

\* C19: the sort toggle flips sort_mode between A-Z and Z-A and re-sorts
\* style_names with the favourites first and each group in the new direction;
\* with the styles a and b and only a starred, style_names is [a, b] in both
\* directions
C19_SortToggleKeepsFavoritesFirst == [][C19_Step]_vars

\* a is starred and the list of a and b was sorted Z-A: a stays first
C19_Witness ==
    /\ context.state = STYLE_MANAGER
    /\ context.style_manager_data.favorites = << <<"a">> >>
    /\ context.style_manager_data.sort_mode = "Z-A"
    /\ context.style_manager_data.style_names = << <<"a">>, <<"b">> >>

\* the name s_copy (n = 1) or s_copy_n
CopyName(s, n) ==
    IF n = 1 THEN s \o <<"_", "c", "o", "p", "y">>
    ELSE s \o <<"_", "c", "o", "p", "y", "_">> \o str(n)

C20_Step ==
    (/\ context.state = STYLE_MANAGER
     /\ context.style_manager_data.style_names # <<>>
     /\ PressedOk("c"))
    => LET data == context.style_manager_data
           after == context'.style_manager_data
           s == SelectedName(data)
           old == SeqRange(DictKeys(data.styles))
       IN  \E n \in 1..(Len(data.styles) + 1) :
               LET new == CopyName(s, n) IN
               /\ new \notin old
               /\ \A m \in 1..(n - 1) : CopyName(s, m) \in old
               /\ SeqRange(DictKeys(after.styles)) = old \cup {new}
               /\ Len(after.styles) = Len(data.styles) + 1
               /\ DictGet(after.styles, new) = DictGet(data.styles, s)
               /\ \A k \in old : DictGet(after.styles, k) = DictGet(data.styles, k)
               /\ load_styles(disk') = after.styles
               /\ SelectedName(after) = new

\* C20: copying the selected style s adds exactly one new style, named s_copy
\* or, when that name is in use, s_copy_N with the smallest N >= 2 not in
\* use, never an existing name; the copy has the role and content of s, the
\* existing styles are unchanged, the result is persisted and the new entry
\* is selected
C20_CopyAddsOneStyle == [][C20_Step]_vars

\* C21: after a successful import every style that existed before is still
\* there with its role and content, and every imported name that did not
\* exist before is there with the imported data
C21_Step ==
    LET data == context.style_manager_data
        after == context'.style_manager_data
        imported == disk.export.val
    IN  (/\ context.state = STYLE_MANAGER
         /\ data # None
         /\ Pressed("i")
         /\ after.message = "Imported") =>
            /\ \A i \in 1..Len(data.styles) :
                  /\ DictHas(after.styles, data.styles[i].key)
                  /\ DictGet(after.styles, data.styles[i].key) = data.styles[i].val
            /\ \A j \in 1..Len(imported) :
                  ~DictHas(data.styles, imported[j].key) =>
                      /\ DictHas(after.styles, imported[j].key)
                      /\ DictGet(after.styles, imported[j].key) = imported[j].val
            /\ load_styles(disk') = after.styles

C21_ImportKeepsExisting == [][C21_Step]_vars

\* the handler of key runs and a persistence call it makes reports failure
Failed(key) ==
    \E io \in IOsOf(context.state, key) : ~(io.write /\ io.read) /\ Deliver(key, io)

\* C22: when the persistence collaborator reports failure during copy,
\* confirmed delete, favourite toggle, export or import, the manager's styles,
\* style_names, favorites, sort_mode and selected_index are as before, message
\* is a non-empty text and the screen is the style manager
C22_Step ==
    LET data == context.style_manager_data
        after == context'.style_manager_data
        confirmation == context.confirmation_data
    IN  (/\ data # None
         /\ \/ /\ context.state = STYLE_MANAGER
               /\ data.style_names # <<>>
               /\ Failed("c") \/ Failed("f")
            \/ /\ context.state = STYLE_MANAGER
               /\ Failed("x")
            \/ /\ context.state = STYLE_MANAGER
               /\ disk.exports_dir
               /\ disk.export # None
               /\ Failed("i")
            \/ /\ context.state = CONFIRMATION
               /\ confirmation # None
               /\ DictHas(data.styles, confirmation.action_name)
               /\ Failed("y")) =>
            /\ after.styles = data.styles
            /\ after.style_names = data.style_names
            /\ after.favorites = data.favorites
            /\ after.sort_mode = data.sort_mode
            /\ after.selected_index = data.selected_index
            /\ after.message # ""
            /\ context'.state = STYLE_MANAGER

C22_FailureLeavesManagerData == [][C22_Step]_vars

\* a confirmed delete whose save failed
C22_Witness ==
    /\ context.state = STYLE_MANAGER
    /\ context.confirmation_data # None
    /\ context.confirmation_data.confirmed = Some(TRUE)
    /\ context.style_manager_data.message = "Failed to delete"
    /\ DictHas(context.style_manager_data.styles, context.confirmation_data.action_name)

\* the names that occur in list q, and how often x occurs in q
Members(q) == {q[i] : i \in 1..Len(q)}
Occurrences(q, x) == Cardinality({i \in 1..Len(q) : q[i] = x})

\* C23 as stated: toggle_favorite(n, toggle_favorite(n, L)) == L for every
\* list L and name n, and the list passed in is never modified
C23_ToggleIsInverse ==
    /\ input.passed_after = input.passed
    /\ input.calls = 2 => ret.val = session.favorites

\* C23 amended: for a list L in which no name occurs twice the second call
\* returns the members of L, as L itself when n is not in L or is its last
\* element, with n moved to the end otherwise, and no call modifies the list
\* passed in
C23_ToggleRestoresMembers ==
    LET L == session.favorites
        n == session.style_name
    IN  /\ input.passed_after = input.passed
        /\ (input.calls = 2 /\ \A x \in Members(L) : Occurrences(L, x) = 1) =>
              /\ Members(ret.val) = Members(L)
              /\ Len(ret.val) = Len(L)
              /\ ret.val = SelectSeq(L, LAMBDA x : x # n)
                           \o (IF n \in Members(L) THEN <<n>> ELSE <<>>)
              /\ (ret.val = L) <=> (n \notin Members(L) \/ L[Len(L)] = n)

\* n was toggled twice in a list that holds it before another name
C23_Witness ==
    /\ session.kind = "toggle_favorite"
    /\ input.calls = 2
    /\ session.favorites = <<<<"a">>, <<"b">>>>
    /\ session.style_name = <<"a">>
    /\ ret.val = <<<<"b">>, <<"a">>>>

\* C24: load_styles right after a successful save_styles(m) returns m, so
\* saving what was loaded leaves the persisted mapping as it is and every
\* style of m is there after the reload
C24_RoundTrip ==
    (session.kind = "round_trip" /\ input.pc = "loaded" /\ input.returned) =>
        ret.val = input.saved

\* every character of name is alphanumeric, '_' or '-'
NameCharsAllowed(name) == \A i \in 1..Len(name) : is_alnum(name[i]) \/ name[i] \in {"_", "-"}

\* C25 as stated: validate_style returns no error exactly when name is not
\* empty and made of alphanumeric characters, '_' and '-', and content is not
\* empty
C25_ValidExactly ==
    (session.kind = "validate_style" /\ ret # None) =>
        (ret.val = "" <=> /\ session.name # <<>>
                          /\ NameCharsAllowed(session.name)
                          /\ session.content # <<>>)

\* C25 amended: validate_style returns no error exactly when name is made of
\* alphanumeric characters, '_' and '-' with at least one alphanumeric
\* character among them, and content holds a character that is not white space
C25_ValidExactlyNonBlank ==
    (session.kind = "validate_style" /\ ret # None) =>
        (ret.val = "" <=> /\ NameCharsAllowed(session.name)
                          /\ \E i \in 1..Len(session.name) : is_alnum(session.name[i])
                          /\ \E i \in 1..Len(session.content) :
                                session.content[i] \notin Whitespace)

\* a name of allowed characters was refused for lack of a letter or digit
C25_Witness ==
    /\ session.kind = "validate_style"
    /\ ret # None
    /\ session.name = <<"_", "-">>
    /\ session.content = <<"x">>
    /\ ret.val = "Style name must be alphanumeric (underscores and hyphens allowed)"

\* the data record of the current screen is absent
DataAbsent == context.state \in NonTerminalStates /\ context[DataField(context.state)] = None

\* the texts the screens show for an absent data record
MissingDataTexts ==
    {"No styles available", "No settings available", "No input data",
     "No style manager data", "No style editor data", "No confirmation data",
     "Error: No text input data"}

\* C26: in every non-terminal state whose data record is absent the render
\* gives a visible error and does not raise, and a key leaves the context as
\* it is
C26_Inv ==
    DataAbsent => /\ render_current_screen(context) \in MissingDataTexts
                  /\ loop.pc # "raised"

C26_Step == (DataAbsent /\ \E key \in ConsoleKeys : PressedOk(key)) => context' = context

C26_MissingDataRendered == []C26_Inv /\ [][C26_Step]_vars

\* C27: in StyleSelection a key that equals the key of a listed item, and is
\* not the settings key, sets selected_index to the position of that item and
\* leaves the state StyleSelection
C27_Step ==
    LET data == context.selection_data IN
    (context.state = STYLE_SELECTION /\ data # None) =>
        \A i \in 1..Len(data.items) :
            LET key == data.items[i].key IN
            (Len(key) = 1 /\ ~is_settings(key[1]) /\ PressedOk(key[1])) =>
                /\ context'.state = STYLE_SELECTION
                /\ context'.selection_data.selected_index = i - 1

C27_NumericKeyJumps == [][C27_Step]_vars

\* C28: a round trip Settings -> NumberInput -> Settings, ended by Enter or by
\* Esc, comes back to Settings with the same selected_index and with every
\* config attribute unchanged except, after Enter, the attribute being edited,
\* which holds the confirmed value.  While the prompt of a setting is open the
\* highlighted setting is the one being edited and it still has the value the
\* prompt started from; no key of the prompt changes config or the settings
\* data before the one that ends it.
C28_Inv ==
    LET data == context.number_input_data IN
    (context.state = NUMBER_INPUT /\ data # None /\ data.target_attr # None) =>
        /\ data.previous_state = SETTINGS
        /\ context.settings_data # None
        /\ PyIndex(context.settings_data.settings,
                   context.settings_data.selected_index).attr = data.target_attr.val
        /\ config[data.target_attr.val] = data.default_value

C28_Step ==
    LET data == context.number_input_data IN
    /\ (context.state = SETTINGS /\ context'.state = NUMBER_INPUT) =>
          /\ config' = config
          /\ context'.settings_data = context.settings_data
    /\ (context.state = NUMBER_INPUT /\ data # None /\ data.target_attr # None) =>
          /\ context'.settings_data = context.settings_data
          /\ context'.state \in {NUMBER_INPUT, SETTINGS}
          /\ context'.state = NUMBER_INPUT => config' = config
          /\ PressedOk(ESC_KEY) => context'.state = SETTINGS /\ config' = config
          /\ (\E key \in ENTER_KEYS : PressedOk(key)) =>
                /\ context'.state = SETTINGS
                /\ config' = [config EXCEPT ![data.target_attr.val] = confirm_value(data)]

Layouts ==
    { [latin |-> "q", cyrillic |-> "U+0439"], [latin |-> "e", cyrillic |-> "U+0443"],
      [latin |-> "a", cyrillic |-> "U+0444"], [latin |-> "d", cyrillic |-> "U+0432"],
      [latin |-> "c", cyrillic |-> "U+0441"], [latin |-> "x", cyrillic |-> "U+0447"],
      [latin |-> "i", cyrillic |-> "U+0448"], [latin |-> "f", cyrillic |-> "U+0430"],
      [latin |-> "s", cyrillic |-> "U+044B"], [latin |-> "y", cyrillic |-> "U+043D"],
      [latin |-> "n", cyrillic |-> "U+0442"] }

\* the letters the handler of state st acts on
ShortcutLetters(st) ==
    IF st = STYLE_SELECTION THEN {"q", "e"}
    ELSE IF st = SETTINGS THEN {"q"}
    ELSE IF st = STYLE_MANAGER THEN {"e", "a", "d", "c", "x", "i", "f", "s"}
    ELSE IF st = CONFIRMATION THEN {"y", "n"}
    ELSE {}

\* the console keys and the Cyrillic letters of the Russian layout
LayoutKeys == ConsoleKeys \cup {l.cyrillic : l \in Layouts}

ShortcutNames ==
    {"quit", "edit", "add", "delete", "copy", "export", "import", "favorite", "sort",
     "yes", "no"}

\* the shortcuts key triggers: the KeyMap predicates and the yes and no of the
\* confirmation that accept it
ShortcutsOf(key) ==
    {p \in ShortcutNames :
        \/ p = "quit" /\ is_quit(key)
        \/ p = "edit" /\ is_edit(key)
        \/ p = "add" /\ is_add(key)
        \/ p = "delete" /\ is_delete(key)
        \/ p = "copy" /\ is_copy(key)
        \/ p = "export" /\ is_export(key)
        \/ p = "import" /\ is_import(key)
        \/ p = "favorite" /\ is_favorite(key)
        \/ p = "sort" /\ is_sort(key)
        \/ p = "yes" /\ key_lower(key) = "y"
        \/ p = "no" /\ key_lower(key) = "n"}

\* C29: every single-letter shortcut does the same when pressed as the Latin
\* letter and as its counterpart in the Russian layout, and no key triggers two
\* shortcuts
C29_LayoutsAgree ==
    /\ \A l \in Layouts :
          l.latin \in ShortcutLetters(context.state) =>
              \A io \in IOsOf(context.state, l.latin) :
                  handle_keyboard(W, l.cyrillic, io) = handle_keyboard(W, l.latin, io)
    /\ \A key \in LayoutKeys :
          Cardinality(ShortcutsOf(key)) <= 1

\* C30: decide_change called with a hash returns "call" and sets last_hash to
\* that hash exactly when there is no previous hash or the distance between
\* last_hash and the hash is at least config.hash_threshold
C30_Step ==
    \A h \in ImageHashes :
        CallDecideChange(Some(h)) =>
            LET self == session.detector IN
            (ret'.val = "call" /\ session'.detector.last_hash = Some(h))
            <=> (\/ self.last_hash = None
                 \/ hash_distance(self.last_hash.val, h) >= config.hash_threshold)

\* when decide_change does not call, it leaves last_hash as it was
C30_Kept ==
    \A h \in ImageHashes :
        (CallDecideChange(Some(h)) /\ ret'.val # "call") =>
            session'.detector.last_hash = session.detector.last_hash

C30_CallOnFirstRunOrChange == [][C30_Step /\ C30_Kept]_vars

\* decide_change returned "call" for the hash {1, 2} at time 1 and stored it
C30_Witness ==
    /\ session.kind = "capture"
    /\ config.hash_threshold = 2
    /\ ret = Some("call")
    /\ session.detector.last_hash = Some({1, 2})
    /\ session.detector.last_change_monotonic = Some(1)
    /\ input.now_m = 1

\* the cached result decide_change would answer with: set, not empty, not expired
CacheValid(self, now_m) ==
    /\ self.last_api_result # None
    /\ self.last_api_result.val # ""
    /\ now_m < self.cache_expire_monotonic

\* the decision for a hash that does not count as a change
C31_Unchanged(h) ==
    /\ ret'.val # "call"
    /\ session'.detector.last_hash = session.detector.last_hash
    /\ ret'.val = IF CacheValid(session.detector, input.now_m) THEN "use_cache" ELSE "skip"

C31_Step ==
    \A h \in ImageHashes :
        ( /\ CallDecideChange(Some(h))
          /\ session.detector.last_hash # None
          /\ hash_distance(session.detector.last_hash.val, h) < config.hash_threshold )
        => C31_Unchanged(h)

C31_SameHash ==
    \A h \in ImageHashes :
        (CallDecideChange(Some(h)) /\ session.detector.last_hash = Some(h))
        => C31_Unchanged(h)

C31_LastCall ==
    session.kind = "capture" /\ session'.kind = "capture"
    => session'.detector.last_hash = input'.called

\* C31: decide_change given a hash whose distance from last_hash is below the
\* threshold, in particular the hash it was given last, never returns "call"
\* and leaves last_hash unchanged: it returns "use_cache" when a cached result
\* exists and has not expired and "skip" otherwise; last_hash is always the
\* hash of the latest "call" decision
C31_BelowThresholdKeeps == [][C31_Step /\ C31_SameHash /\ C31_LastCall]_vars

\* C31 with the repeated hash counted only through its distance: with a
\* threshold of 0 no distance is below the threshold, and the same hash is a change
C31_BelowThresholdKeepsByDistance == [][C31_Step /\ C31_LastCall]_vars

\* decide_change answered "use_cache" for a hash closer than the threshold 2 to
\* the stored hash {1, 2}, which it kept
C31_Witness ==
    /\ session.kind = "capture"
    /\ config.hash_threshold = 2
    /\ ret = Some("use_cache")
    /\ session.detector.last_hash = Some({1, 2})
    /\ input.called = Some({1, 2})
    /\ CacheValid(session.detector, input.now_m)

\* C32: an iteration of the run loop renders exactly when it is the first one
\* or the previous iteration handled an event; an iteration handles at most
\* one event; and a render shows the screen of the state all handled events
\* have led to
C32_RenderAfterEvent ==
    /\ session.kind = "selection" /\ loop.pc \in {"run", "poll"}
       => input.events <= 1 /\ input.handled <= 1
    /\ session.kind = "selection" /\ loop.pc = "poll"
       => /\ input.shown # None <=> (input.first \/ input.handled = 1)
          /\ input.shown # None => input.shown.val = context.state

\* the iteration after Enter on the style list rendered the interval prompt
C32_Witness ==
    /\ loop.pc = "poll"
    /\ ~input.first
    /\ input.handled = 1
    /\ input.shown = Some(NUMBER_INPUT)
    /\ context.state = NUMBER_INPUT

\* the screen-data records of UIContext
DataFields == {DataField(st) : st \in NonTerminalStates}

\* the records a step changed
ChangedRecords == {f \in DataFields : context'[f] # context[f]}

\* the record of the screen the step started on, and of the screen it entered
OwnRecord == DataField(context.state)
EnteredRecords ==
    IF context'.state \in NonTerminalStates /\ context'.state # context.state
    THEN {DataField(context'.state)}
    ELSE {}

\* the step reloaded the style list of the selection screen from the styles
\* file: items and selected_index are those of _reload_style_selection
SelectionReloaded ==
    /\ context.state \in {STYLE_MANAGER, STYLE_EDITOR}
    /\ context.selection_data # None
    /\ context'.selection_data =
          reload_style_selection([ctx |-> context, cfg |-> config', disk |-> disk'])
              .ctx.selection_data

C33_Step ==
    context.state \in NonTerminalStates
    => ChangedRecords \subseteq ({OwnRecord} \cup EnteredRecords)

C33_StepReload ==
    context.state \in NonTerminalStates
    => \A f \in ChangedRecords :
          \/ f = OwnRecord
          \/ f \in EnteredRecords
          \/ f = "selection_data" /\ SelectionReloaded

C36_IndexInRange ==
    context.style_manager_data # None /\ context.style_manager_data.style_names # <<>>
    => /\ 0 <= context.style_manager_data.selected_index
       /\ context.style_manager_data.selected_index
              < Len(context.style_manager_data.style_names)

\* C37: whenever a selection session is Confirmed, selected_style is the item
\* at selected_index of the selection list and selected_interval is the number
\* the interval prompt accepted
C37_ConfirmedSelection ==
    session.kind = "selection" /\ context.state = CONFIRMED
    => /\ context.selected_style # None
       /\ context.selected_style = get_selected_item(context.selection_data)
       /\ context.number_input_data # None
       /\ context.number_input_data.target_attr = None
       /\ context.number_input_data.result # None
       /\ context.selected_interval = context.number_input_data.result.val
       /\ context.selected_interval =
              IF context.number_input_data.current_value = <<>>
              THEN context.number_input_data.default_value
              ELSE ParseInt(context.number_input_data.current_value)

\* Confirmed with the second style of the list and the typed interval 2
C37_Witness ==
    /\ context.state = CONFIRMED
    /\ context.selection_data.selected_index = 1
    /\ context.selected_style = context.selection_data.items[2]
    /\ context.number_input_data.current_value = <<"2">>
    /\ context.selected_interval = 2

\* the editor holds a name or a content that validate_style rejects
EditorInvalid ==
    validate_style(context.style_editor_data.style_name,
                   context.style_editor_data.content) # ""

\* the styles a save from the editor writes: the manager's styles with the
\* edited entry, and without the old name when an existing style is renamed
EditorSaved ==
    LET data == context.style_editor_data
        manager_data == context.style_manager_data
        kept == IF ~data.is_new /\ data.original_name # data.style_name
                THEN DictDel(manager_data.styles, data.original_name)
                ELSE manager_data.styles
    IN  DictSet(kept, data.style_name, [role |-> "system", content |-> data.content])

C38_Leave ==
    (context.state = STYLE_EDITOR /\ context'.state # STYLE_EDITOR)
    => /\ ~EditorInvalid
       /\ save_styles_ok(disk, TRUE)
       /\ context'.state = STYLE_MANAGER
       /\ context'.style_manager_data.styles = EditorSaved
       /\ DictGet(context'.style_manager_data.styles,
                  context.style_editor_data.style_name).content
              = context.style_editor_data.content
       /\ disk' = save_styles(disk, EditorSaved, TRUE)
       /\ \E key \in SaveEditorKeys :
             /\ key = ESC_KEY \/ (is_enter(key) /\ context.style_editor_data.is_editing_name)
             /\ Deliver(key, IOOk)

C38_Stay ==
    \A key \in SaveEditorKeys : \A io \in IOsOf(STYLE_EDITOR, key) :
       (/\ context.state = STYLE_EDITOR
        /\ Deliver(key, io)
        /\ EditorInvalid \/ ~save_styles_ok(disk, io.write))
       => /\ context'.state = STYLE_EDITOR
          /\ disk' = disk
          /\ context'.style_manager_data = context.style_manager_data

EscapeKey(w) ==
    LET data == w.ctx.style_editor_data
        name_ok == validate_style(data.style_name, <<"a">>) = ""
        field == IF name_ok THEN data.content ELSE data.style_name
    IN  IF w.ctx.state = CONFIRMATION THEN "n"
        ELSE IF w.ctx.state # STYLE_EDITOR \/ data = None THEN ESC_KEY
        ELSE IF validate_style(data.style_name, data.content) = "" THEN ESC_KEY
        ELSE IF data.is_editing_name # ~name_ok THEN "\t"
        ELSE IF data.cursor_position < Len(field) THEN "\\xe0M"
        ELSE IF field # <<>> THEN BACKSPACE_KEY
        ELSE "a"

\* most keys the way out takes: both fields of the editor emptied and
\* refilled, and one key for each of the other screens
EscapeLen == 2 * (MaxNameLen + MaxContentLen) + 8

\* the keys of EscapeKey end the session of w within n keys when every
\* persistence call succeeds
RECURSIVE Ends(_, _)
Ends(w, n) ==
    \/ w.ctx.state \in TerminalStates
    \/ n > 0 /\ Ends(handle_keyboard(w, EscapeKey(w), IOOk), n - 1)

\* C39: from every reachable non-terminal state some finite sequence of keys
\* leads to Cancelled or Confirmed when the persistence calls succeed
C39_CanEnd == context.state \in NonTerminalStates => Ends(W, EscapeLen)

\* C40: once the style manager was entered with favourites that all name
\* existing styles, every name in its favorites is a key of its styles
C40_FavoritesAreStyles ==
    context.style_manager_data # None
    => \A i \in 1..Len(context.style_manager_data.favorites) :
          DictHas(context.style_manager_data.styles,
                  context.style_manager_data.favorites[i])

====
